---- MODULE Spec2Model ----
(***************************************************************************)
(* Model of the headless live-measurement loop of                          *)
(* LiveKeypointDistanceMeasurer (src/python-core/integration.py):          *)
(* transfer_keypoints_robust, stabilize_keypoints,                         *)
(* check_coordinated_movement, check_qc, save_live_measurements, the side  *)
(* switches and the key handling of transfer_keypoints_to_live.            *)
(*                                                                         *)
(* Units.  Pixel coordinates are integers.  Every annotated keypoint and   *)
(* every candidate lies on one horizontal line (y = RefY), so Euclidean    *)
(* distances and cosine similarities come out exact in integers.           *)
(* Centimetre values inside the engine are kept in 1/1000 cm               *)
(* (real_distance, target distances, tolerance); round(x, 2) of the        *)
(* snapshot turns them into 1/100 cm.  Scale factors are kept in 1/10.     *)
(* Python lists of keypoints are functions over 0 .. n-1, so that the      *)
(* indices are the indices of the source.                                  *)
(***************************************************************************)
EXTENDS Integers, Sequences, FiniteSets, TLC

(***************************************************************************)
(* Bounds of the explored inputs.                                          *)
(***************************************************************************)
\* size of the displacement a candidate may show (pixels); above the
\* jitter threshold, below the blend closeness threshold
JumpPx == 20
\* zoom levels reachable with the Z key (0 = 1.0x)
MaxZoomLevel == 1
\* pan steps (of 20 px) explored to the right of the reset view
MaxPan == 1
\* number of frames of a session on which the transfer step runs
MaxFrames == 2
\* largest number of keypoint entries of an annotation file that is loaded
MaxFileLen == 19

(***************************************************************************)
(* Program constants.                                                      *)
(***************************************************************************)
min_matches == 15
stabilization_threshold == 17
qc_tolerance_cm == 100
LockMinKeypoints == 18
HomographyMinMatches == 20

\* the band of line 866 for the determinant, in hundredths
DetLow == 10

DetHigh == 1000
BlendCloseness == 25
MovementMinMagnitude == 5
StabilizedAfterFrames == 2
\* transfer_interval = 0.06 s, counted in ticks of 0.06 s; between two
\* iterations of the loop no tick or some ticks pass
transfer_interval == 1
\* 1.0 in tenths
InitialScale == 10
\* scale_smoothing_factor = 0.3, in tenths
scale_smoothing_factor == 3

\* Python None in a numeric field
None == -1
Invalid == <<-1, -1>>
EmptyList == [i \in {} |-> Invalid]
RefY == 100

(***************************************************************************)
(* Arithmetic helpers.                                                     *)
(***************************************************************************)
ListLen(l) == Cardinality(DOMAIN l)

Abs(x) == IF x < 0 THEN -x ELSE x

Max(a, b) == IF a >= b THEN a ELSE b

Min(a, b) == IF a <= b THEN a ELSE b

RECURSIVE SqrtSearch(_, _, _, _)
SqrtSearch(n, lo, hi, mid) ==
    IF lo >= hi THEN lo
    ELSE IF mid * mid <= n THEN SqrtSearch(n, mid, hi, (mid + hi + 1) \div 2)
    ELSE SqrtSearch(n, lo, mid - 1, (lo + mid) \div 2)

SqrtBelow(n, hi) == SqrtSearch(n, 0, hi, (hi + 1) \div 2)

\* math.sqrt on the integers of the model: exact on perfect squares
ISqrt(n) == SqrtBelow(n, Min(n, 46340))

\* length of the vector (dx, dy)
Norm(dx, dy) ==
    IF dy = 0 THEN Abs(dx)
    ELSE IF dx = 0 THEN Abs(dy)
    ELSE ISqrt(dx * dx + dy * dy)

Dist2(p, q) == (p[1] - q[1]) * (p[1] - q[1]) + (p[2] - q[2]) * (p[2] - q[2])

RECURSIVE SumOver(_, _)
SumOver(S, f) ==
    IF S = {} THEN 0
    ELSE LET i == CHOOSE j \in S : TRUE
         IN  f[i] + SumOver(S \ {i}, f)

\* a list or set built once; TLC would otherwise rebuild a constructor
\* expression at every use
Built(f) == IF f = f THEN f ELSE f

\* round(x, 2) of a value held in 1/1000 cm, result in 1/100 cm
Round2(milli) == (milli + 5) \div 10

\* centimetres to the 1/1000 cm of the model
CmToMilli(cm) == cm * 1000

(***************************************************************************)
(* Annotation sets the worker may have loaded (load_annotation,            *)
(* load_back_annotation) and the other session inputs.                     *)
(***************************************************************************)
RefPoint(i) == <<100 + 50 * i, RefY>>

BackRefPoint(i) == <<120 + 60 * i, RefY>>

\* 18 keypoints with explicit roles: one normal pair, ten corners, six perp
Ann18 ==
    [keypoints |-> [i \in 0..17 |-> RefPoint(i)],
     types |-> [i \in 0..17 |-> IF i < 2 THEN "normal"
                                ELSE IF i < 12 THEN "corner" ELSE "perp"],
     targets |-> (1 :> CmToMilli(105))]

\* the four-keypoint annotation of the scenario: no target distances
Ann4 ==
    [keypoints |-> [i \in 0..3 |-> RefPoint(i)],
     types |-> [i \in 0..3 |-> IF i < 2 THEN "normal" ELSE "corner"],
     targets |-> [k \in {} |-> 0]]

\* five keypoints, the last without a partner; no target distances
Ann5 ==
    [keypoints |-> [i \in 0..4 |-> RefPoint(i)],
     types |-> [i \in 0..4 |-> "normal"],
     targets |-> [k \in {} |-> 0]]

\* a back side with perp roles but fewer than 18 keypoints
Back4 ==
    [keypoints |-> [i \in 0..3 |-> BackRefPoint(i)],
     types |-> [i \in 0..3 |-> IF i < 2 THEN "perp" ELSE "normal"],
     targets |-> (1 :> CmToMilli(106)) @@ (2 :> CmToMilli(107))]

NoAnnotation ==
    [keypoints |-> EmptyList,
     types |-> [i \in {} |-> "normal"],
     targets |-> [k \in {} |-> 0]]

\* no annotation file has been read
NotLoaded == <<"absent">>

\* the role column of the file an annotation with explicit roles came from
FileOf(ann) == IF DOMAIN ann.keypoints = {} THEN NotLoaded ELSE ann.types

\* measurement_specs handed over by the UI: per-pair tolerance fields
Specs3 ==
    <<[tol_plus |-> 0, tol_minus |-> 0],
      [tol_plus |-> 1, tol_minus |-> 1],
      [tol_plus |-> 2, tol_minus |-> 2]>>

\* pixels_per_cm of a valid calibration file
CalibratedPixelsPerCm == 10

\* indices whose template candidate may be missing on a frame
DropIdx == {0, 12, 13}

\* indices whose template candidate may be displaced on a frame
JumpIdx == {0}

VARIABLES
    \* session inputs, fixed after the worker has loaded them
    keypoints, keypoint_types, target_distances,
    back_keypoints, back_keypoint_types, back_target_distances,
    is_calibrated, pixels_per_cm, measurement_specs, headless,
    \* the role column of the 'keypoints' entries of the two annotation files
    keypoints_data, back_keypoints_data,
    \* engine fields
    current_side, transferred_keypoints, is_keypoints_transferred,
    last_valid_keypoints, keypoint_stabilized, stabilization_frames,
    perpendicular_points_initialized, perpendicular_points_static_map,
    last_detected_scale, last_measurements, qc_results,
    paused, zoom_factor, pan_x,
    \* locals of transfer_keypoints_to_live
    perpendicular_static_mode, current_measurements, since_last_transfer, pc,
    \* live_measurements.json
    snapshot,
    \* what the last transfer_keypoints_robust call did, and the
    \* last_valid_keypoints it found
    fused_points, transfer_path, previous_valid,
    \* the outcomes of the frame it ran on and its Transfer Engine candidates
    frame_input, engine_points,
    \* history of the session
    saved, ever_measured, last_good, frames_processed,
    \* the side of the last iteration and, per pair, the last tuple the pair
    \* loop built on that side since the switch to it
    side_measured,
    \* current_time - last_transfer_time as line 2916 computed it in this
    \* iteration, in ticks of transfer_interval
    elapsed,
    \* the stop flag another thread of the worker may set
    should_stop,
    \* the API server: measurement_process, measurement_status['running'],
    \* the worker processes alive, the run_measurement threads, the position
    \* of the start_measurement request in progress, the sessions started
    measurement_process, measurement_running, workers_alive, run_threads,
    start_pc, sessions,
    \* the workers a stop has been requested for
    stop_requested,
    \* the bytes on disk during save_live_measurements: the live file, its
    \* temporary file, the position of the save, the saves begun, and what
    \* the last GET /api/results/live read
    results_file, temp_file, save_pc, saves, reader_data,
    \* run_headless_measurement: its position, the exit code of the worker,
    \* the two reference image files and whether the engine holds a decoded
    \* image for each side
    worker_pc, exit_code, reference_image_file, back_reference_image_file,
    reference_image, back_reference_image,
    \* one call of transfer_with_homography: the matching outcome it is
    \* given and the points it returns
    homography_input, homography_result,
    \* one pass of the fusion of lines 1299-1364 over a single index: its
    \* role, candidates, match count and lock, and the fused point
    fuse_input, fuse_result

configVars ==
    <<keypoints, keypoint_types, target_distances,
      back_keypoints, back_keypoint_types, back_target_distances,
      is_calibrated, pixels_per_cm, measurement_specs,
      keypoints_data, back_keypoints_data, headless>>

\* the state of the API server process
apiVars ==
    <<measurement_process, measurement_running, workers_alive, run_threads,
      start_pc, sessions, stop_requested>>

\* the live file as a sequence of writes
fileVars == <<results_file, temp_file, save_pc, saves, reader_data>>

\* the start of the worker, before the loop
startupVars ==
    <<worker_pc, exit_code, reference_image_file, back_reference_image_file,
      reference_image, back_reference_image>>

\* single calls of the functions of the engine
callVars ==
    <<homography_input, homography_result, fuse_input, fuse_result>>

\* what the iterations of the loop leave alone
outsideVars == <<should_stop, apiVars, fileVars, startupVars, callVars>>

trackingVars ==
    <<last_valid_keypoints, keypoint_stabilized, stabilization_frames,
      perpendicular_points_initialized, perpendicular_points_static_map,
      last_detected_scale>>

viewVars == <<zoom_factor, pan_x>>

historyVars ==
    <<saved, ever_measured, last_good, side_measured, frames_processed,
      elapsed>>

vars ==
    <<configVars, outsideVars, trackingVars, viewVars, historyVars,
      current_side, transferred_keypoints, is_keypoints_transferred,
      last_measurements, qc_results, paused,
      perpendicular_static_mode, current_measurements, since_last_transfer,
      pc, snapshot, fused_points, transfer_path, previous_valid,
      frame_input, engine_points>>

NoSnapshot == [side |-> "none", is_calibrated |-> FALSE, measurements |-> <<>>]

NoResults == [k \in {} |-> "PASS"]

Sides == {"front", "back"}

NoLastGood == [s \in Sides |-> [k \in {} |-> 0]]

EmptyMap == [i \in {} |-> Invalid]

(***************************************************************************)
(* What one captured frame yields: the outcome of feature extraction and   *)
(* matching, of template matching and of corner detection.                 *)
(*   desc    both descriptor sets are present and non-empty                *)
(*   n       number of accepted matches                                    *)
(*   hom     findHomography gave a matrix                                  *)
(*   det     its determinant, in hundredths                                *)
(*   shift   displacement the estimated transform gives every keypoint     *)
(*   median  median of the pairwise distance ratios, in tenths             *)
(***************************************************************************)
FeatureOutcomes ==
    { \* a featureless frame
      [desc |-> FALSE, n |-> 0,  hom |-> FALSE, det |-> 0,   shift |-> 0,      median |-> 10],
      \* fewer than min_matches matches
      [desc |-> TRUE,  n |-> 10, hom |-> FALSE, det |-> 0,   shift |-> 0,      median |-> 10],
      \* enough matches for MLS only, garment where the reference had it
      [desc |-> TRUE,  n |-> 15, hom |-> FALSE, det |-> 0,   shift |-> 0,      median |-> 10],
      \* homography accepted, garment displaced and nearer to the camera
      [desc |-> TRUE,  n |-> 20, hom |-> TRUE,  det |-> 100, shift |-> JumpPx, median |-> 14],
      \* homography rejected, MLS takes over
      [desc |-> TRUE,  n |-> 20, hom |-> TRUE,  det |-> 2000, shift |-> 0,     median |-> 10] }

CornerOutcomes == {"found", "missing"}

\* what template matching does to the candidates: nothing, one candidate
\* missing, every candidate missing, or the first candidate displaced by
\* JumpPx
TemplateOutcomes(kps) ==
    {[drop |-> {}, jump |-> {}], [drop |-> DOMAIN kps, jump |-> {}]}
        \cup {[drop |-> {i}, jump |-> {}] : i \in DropIdx \cap DOMAIN kps}
        \cup {[drop |-> {}, jump |-> {i}] : i \in JumpIdx \cap DOMAIN kps}

\* no frame has been handed to transfer_keypoints_robust in this iteration
NoFrame ==
    [feature |-> [desc |-> FALSE, n |-> None, hom |-> FALSE, det |-> 0,   shift |-> 0,
                  median |-> 10],
     drop |-> {}, jump |-> {}, corner |-> "none"]

\* the outcomes a frame can have for the keypoint list kps
FrameInputs(kps) ==
    { [feature |-> f, drop |-> t.drop, jump |-> t.jump, corner |-> c] :
        f \in FeatureOutcomes, t \in TemplateOutcomes(kps),
        c \in CornerOutcomes }

Shifted(p, dx) == <<p[1] + dx, p[2]>>

IsValidX(p) == p[1] # -1

At(list, i) == IF i \in DOMAIN list THEN list[i] ELSE Invalid

CurrentKeypoints == IF current_side = "front" THEN keypoints ELSE back_keypoints

CurrentTypes ==
    IF current_side = "front" THEN keypoint_types ELSE back_keypoint_types

CurrentTargets ==
    IF current_side = "front" THEN target_distances ELSE back_target_distances

\* line 866: 0.1 < abs(det) < 10.0
DeterminantAccepted(det) == DetLow < Abs(det) /\ Abs(det) < DetHigh

\* every keypoint mapped through the accepted homography, else no result
transfer_with_homography(inp, kps) ==
    IF inp.feature.n < min_matches \/ ~inp.feature.hom
          \/ ~DeterminantAccepted(inp.feature.det)
    THEN EmptyList
    ELSE [i \in DOMAIN kps |-> Shifted(kps[i], inp.feature.shift)]

\* the locally weighted mapping: a point for every keypoint from 4 matches on
transfer_with_mls(inp, kps) ==
    IF inp.feature.n < 4 THEN EmptyList
    ELSE [i \in DOMAIN kps |-> Shifted(kps[i], inp.feature.shift)]

\* EMA of the scale estimate, in tenths
estimate_scale_change(scale, inp) ==
    (scale * (10 - scale_smoothing_factor)
       + inp.feature.median * scale_smoothing_factor) \div 10

template_match_keypoints(inp, kps) ==
    [i \in DOMAIN kps |->
        IF i \in inp.drop THEN Invalid
        ELSE IF i \in inp.jump THEN Shifted(kps[i], JumpPx)
        ELSE kps[i]]

\* the value of corner_counter when the fusion loop reaches index i
CornerCounter(types, i) ==
    Cardinality({j \in DOMAIN types : j < i /\ types[j] = "corner"})

IsCorner(types, i) == i \in DOMAIN types /\ types[i] = "corner"

\* the corner keypoints in index order
CornerOrder(kps, types) ==
    SelectSeq([k \in 1 .. ListLen(kps) |-> k - 1],
              LAMBDA i : IsCorner(types, i))

DetectedCorners(inp, kps, order) ==
    [c \in 1 .. Len(order) |->
        IF inp.corner = "found" THEN kps[order[c]] ELSE Invalid]

\* the list detect_corners_robust returns, one entry per corner keypoint in
\* index order (a sequence: entry c of the source is entry c + 1 here)
detect_corners_robust(inp, kps, types) ==
    DetectedCorners(inp, kps, Built(CornerOrder(kps, types)))

\* a Transfer Engine without the local transform behind a failed homography
FeaturePointsNoFallback(inp, kps) ==
    IF inp.feature.n >= min_matches
    THEN IF inp.feature.n >= HomographyMinMatches
         THEN LET homography_points == transfer_with_homography(inp, kps)
              IN  IF ListLen(homography_points) > 0 THEN homography_points
                  ELSE [i \in DOMAIN kps |-> Invalid]
         ELSE transfer_with_mls(inp, kps)
    ELSE [i \in DOMAIN kps |-> Invalid]

\* a Transfer Engine that computes the local transform below min_matches too
FeaturePointsUngated(inp, kps) ==
    IF inp.feature.n >= HomographyMinMatches
    THEN LET homography_points == transfer_with_homography(inp, kps)
         IN  IF ListLen(homography_points) > 0 THEN homography_points
             ELSE transfer_with_mls(inp, kps)
    ELSE transfer_with_mls(inp, kps)

\* lines 1258-1280: the transfer-engine candidates of a frame with descriptors
FeaturePoints(inp, kps) ==
    IF inp.feature.n >= min_matches
    THEN IF inp.feature.n >= HomographyMinMatches
         THEN LET homography_points == transfer_with_homography(inp, kps)
              IN  IF ListLen(homography_points) > 0 THEN homography_points
                  ELSE transfer_with_mls(inp, kps)
         ELSE transfer_with_mls(inp, kps)
    ELSE [i \in DOMAIN kps |-> Invalid]

Blend(f, t, w) == (f * w + t * (10 - w)) \div 10

\* a fusion that takes the transfer-engine candidate whenever it is valid
FusePointFeatureFirst(i, types, feature_points, template_points, corner_points, matches, initialized, static_map) ==
    IF i \in DOMAIN static_map /\ initialized /\ types[i] = "perp"
    THEN static_map[i]
    ELSE IF IsValidX(At(feature_points, i)) THEN At(feature_points, i)
    ELSE IF IsValidX(At(template_points, i)) THEN At(template_points, i)
    ELSE Invalid

\* the fusion of one index (lines 1299-1364)
FusePoint(i, types, feature_points, template_points, corner_points, matches, initialized, static_map) ==
    LET point_type == IF i \in DOMAIN types THEN types[i] ELSE "normal"
        feat_pt == At(feature_points, i)
        temp_pt == At(template_points, i)
        cc == CornerCounter(types, i)
    IN  IF point_type = "corner" /\ cc < Len(corner_points)
        THEN LET corner_pt == corner_points[cc + 1]
             IN  IF IsValidX(corner_pt) THEN corner_pt
                 ELSE IF IsValidX(feat_pt) THEN feat_pt
                 ELSE IF IsValidX(temp_pt) THEN temp_pt
                 ELSE Invalid
        ELSE IF point_type = "perp"
        THEN IF initialized /\ i \in DOMAIN static_map THEN static_map[i]
             ELSE IF IsValidX(feat_pt) THEN feat_pt
             ELSE IF IsValidX(temp_pt) THEN temp_pt
             ELSE Invalid
        ELSE IF IsValidX(feat_pt) /\ IsValidX(temp_pt)
             THEN IF Dist2(feat_pt, temp_pt) < BlendCloseness * BlendCloseness
                  THEN LET w == IF matches >= min_matches THEN 7 ELSE 4
                       IN  <<Blend(feat_pt[1], temp_pt[1], w),
                             Blend(feat_pt[2], temp_pt[2], w)>>
                  ELSE IF matches >= min_matches THEN feat_pt ELSE temp_pt
             ELSE IF IsValidX(feat_pt) THEN feat_pt
             ELSE IF IsValidX(temp_pt) THEN temp_pt
             ELSE Invalid

(***************************************************************************)
(* Temporal stabilization.                                                 *)
(***************************************************************************)
\* 1000 * cosine of the angle between (dx, dy) and the mean movement, whose
\* direction is that of the sum (sx, sy)
CosineOf(dot, den) ==
    IF dot >= 0 THEN (dot * 1000) \div den ELSE -((-dot * 1000) \div den)

Cosine1000(dx, dy, sx, sy) ==
    IF dx * dx + dy * dy > 0 /\ sx * sx + sy * sy > 0
    THEN CosineOf(dx * sx + dy * sy, Norm(dx, dy) * Norm(sx, sy))
    ELSE 0

\* the other points that moved by more than MovementMinMagnitude
Movers(new_points, changed_index, last_valid) ==
    {i \in DOMAIN new_points \cap DOMAIN last_valid :
        /\ IsValidX(new_points[i])
        /\ IsValidX(last_valid[i])
        /\ i # changed_index
        /\ Dist2(new_points[i], last_valid[i])
             > MovementMinMagnitude * MovementMinMagnitude}

\* mean cosine similarity to the average direction above 0.7
Consistent(movers, new_points, last_valid, sx, sy) ==
    SumOver(movers,
            [i \in movers |->
                Cosine1000(new_points[i][1] - last_valid[i][1],
                           new_points[i][2] - last_valid[i][2], sx, sy)])
        > 700 * Cardinality(movers)

CoordinatedAmong(movers, new_points, last_valid) ==
    IF Cardinality(movers) < 2 THEN TRUE
    ELSE Consistent(movers, new_points, last_valid,
            SumOver(movers,
                    [i \in movers |-> new_points[i][1] - last_valid[i][1]]),
            SumOver(movers,
                    [i \in movers |-> new_points[i][2] - last_valid[i][2]]))

check_coordinated_movement(new_points, changed_index, last_valid) ==
    IF ListLen(last_valid) < 3 THEN TRUE
    ELSE CoordinatedAmong(
            Built(Movers(new_points, changed_index, last_valid)),
            new_points, last_valid)

\* lines 1404-1408: locked indices take their static position
ApplyStatic(new_keypoints, initialized, static_map) ==
    [i \in DOMAIN new_keypoints |->
        IF initialized /\ i \in DOMAIN static_map THEN static_map[i]
        ELSE new_keypoints[i]]

\* a filter that takes a new point only where it did not move at all
AcceptedStill(nk, last_valid, initialized, static_map) ==
    {i \in DOMAIN nk :
        IF nk[i][1] = -1 \/ nk[i][2] = -1 THEN FALSE
        ELSE IF initialized /\ i \in DOMAIN static_map THEN TRUE
        ELSE nk[i] = last_valid[i]}

\* lines 1413-1434: the indices whose new point is taken (and counted valid)
Accepted(nk, last_valid, initialized, static_map) ==
    {i \in DOMAIN nk :
        IF nk[i][1] = -1 \/ nk[i][2] = -1 THEN FALSE
        ELSE IF initialized /\ i \in DOMAIN static_map THEN TRUE
        ELSE IF Dist2(nk[i], last_valid[i])
                  < stabilization_threshold * stabilization_threshold
             THEN TRUE
        ELSE check_coordinated_movement(nk, i, last_valid)}

StabilizedResult(stabilized_points, all_valid, stabilized, frames) ==
    [out |-> stabilized_points, last_valid |-> stabilized_points,
     stabilized |-> IF all_valid
                    THEN (stabilized \/ frames + 1 >= StabilizedAfterFrames)
                    ELSE FALSE,
     frames |-> IF all_valid THEN frames + 1 ELSE 0]

StabilizeAccepted(nk, accepted, last_valid, stabilized, frames) ==
    StabilizedResult(
        Built([i \in DOMAIN nk |->
                 IF i \in accepted THEN nk[i] ELSE last_valid[i]]),
        Cardinality(accepted) = ListLen(nk), stabilized, frames)

StabilizeStatic(nk, last_valid, stabilized, frames, initialized, static_map) ==
    StabilizeAccepted(nk,
        Built(Accepted(nk, last_valid, initialized, static_map)),
        last_valid, stabilized, frames)

\* the result of stabilize_keypoints: the returned list and the fields it sets
stabilize_keypoints(new_keypoints, last_valid, stabilized, frames, initialized, static_map) ==
    IF ListLen(last_valid) = 0 \/ ListLen(last_valid) # ListLen(new_keypoints)
    THEN [out |-> new_keypoints, last_valid |-> new_keypoints,
          stabilized |-> stabilized, frames |-> frames]
    ELSE StabilizeStatic(
            Built(ApplyStatic(new_keypoints, initialized, static_map)),
            last_valid, stabilized, frames, initialized, static_map)

(***************************************************************************)
(* transfer_keypoints_robust on one frame.  The result carries the         *)
(* returned list and every field the call sets.                            *)
(*   path "empty"      no reference or no keypoints: returns []            *)
(*   path "exception"  no descriptors: `matches` is never bound, the read  *)
(*                     of len(matches) at line 1366 raises, and the except *)
(*                     clause returns template_match_keypoints(gray, 1.0)  *)
(*   path "fused"      fusion, stabilization, static-lock initialization   *)
(***************************************************************************)
PerpIndices(types) == {i \in DOMAIN types : types[i] = "perp"}

\* lines 1372-1389
StaticLockInit(stabilized_points, types, initialized, static_map) ==
    IF /\ ~initialized
       /\ ListLen(stabilized_points) >= LockMinKeypoints
       /\ PerpIndices(types) # {}
       /\ \A idx \in PerpIndices(types) :
             /\ idx \in DOMAIN stabilized_points
             /\ stabilized_points[idx][1] # -1
    THEN [initialized |-> TRUE,
          static_map |-> [idx \in PerpIndices(types) |-> stabilized_points[idx]]]
    ELSE [initialized |-> initialized, static_map |-> static_map]

TrackingUnchanged ==
    [last_valid |-> last_valid_keypoints,
     stabilized |-> keypoint_stabilized,
     frames |-> stabilization_frames,
     initialized |-> perpendicular_points_initialized,
     static_map |-> perpendicular_points_static_map,
     scale |-> last_detected_scale]

\* lines 1299-1364 over all indices
FusedPoints(inp, kps, types, feature_points, template_points, corner_points) ==
    [i \in DOMAIN kps |->
        FusePoint(i, types, feature_points, template_points, corner_points,
                  inp.feature.n, perpendicular_points_initialized,
                  perpendicular_points_static_map)]

FusedReturn(fused, st, lock, scale) ==
    [path |-> "fused", out |-> st.out, fused |-> fused,
     last_valid |-> st.last_valid, stabilized |-> st.stabilized,
     frames |-> st.frames, initialized |-> lock.initialized,
     static_map |-> lock.static_map, scale |-> scale]

\* lines 1369-1391
StabilizeAndLock(fused, st, types, scale) ==
    FusedReturn(fused, st,
        StaticLockInit(st.out, types, perpendicular_points_initialized,
                       perpendicular_points_static_map),
        scale)

TransferFused(inp, fused, template_points, types) ==
    IF ~inp.feature.desc
    THEN [path |-> "exception", out |-> template_points, fused |-> fused]
            @@ TrackingUnchanged
    ELSE StabilizeAndLock(fused,
            stabilize_keypoints(fused, last_valid_keypoints,
                keypoint_stabilized, stabilization_frames,
                perpendicular_points_initialized,
                perpendicular_points_static_map),
            types,
            IF inp.feature.n >= min_matches
            THEN estimate_scale_change(last_detected_scale, inp)
            ELSE last_detected_scale)

\* lines 1255-1280: feature_points, the candidates of the Transfer Engine
EnginePoints(inp, kps) ==
    IF inp.feature.desc THEN FeaturePoints(inp, kps)
    ELSE [i \in DOMAIN kps |-> Invalid]

TransferOn(inp, kps, types, template_points) ==
    TransferFused(inp,
        Built(FusedPoints(inp, kps, types,
                Built(EnginePoints(inp, kps)),
                template_points,
                Built(detect_corners_robust(inp, kps, types)))),
        template_points, types)

transfer_keypoints_robust(inp) ==
    IF ListLen(CurrentKeypoints) = 0
    THEN [path |-> "empty", out |-> EmptyList, fused |-> EmptyList,
          feature |-> EmptyList]
            @@ TrackingUnchanged
    ELSE TransferOn(inp, CurrentKeypoints, CurrentTypes,
                    Built(template_match_keypoints(inp, CurrentKeypoints)))
            @@ [feature |-> EnginePoints(inp, CurrentKeypoints)]

(***************************************************************************)
(* Measurement and QC.                                                     *)
(***************************************************************************)
\* a pair test that looks at the second point only
PairValidSecond(tk, k) ==
    ~(tk[2 * k - 1][1] = -1 \/ tk[2 * k - 1][2] = -1)

\* check_qc with the boundary excluded
check_qc_strict(pair_num, measured_distance, targets) ==
    IF pair_num \notin DOMAIN targets THEN TRUE
    ELSE Abs(measured_distance - targets[pair_num]) < CmToMilli(qc_tolerance_cm)

\* the verdict of check_qc for one pair; measured and targets in 1/1000 cm
check_qc(pair_num, measured_distance, targets) ==
    IF pair_num \notin DOMAIN targets THEN TRUE
    ELSE Abs(measured_distance - targets[pair_num]) <= CmToMilli(qc_tolerance_cm)

PairValid(tk, k) ==
    ~(\/ tk[2 * k - 2][1] = -1 \/ tk[2 * k - 2][2] = -1
      \/ tk[2 * k - 1][1] = -1 \/ tk[2 * k - 1][2] = -1)

PixelDistance(tk, k) ==
    Norm(tk[2 * k - 1][1] - tk[2 * k - 2][1],
         tk[2 * k - 1][2] - tk[2 * k - 2][2])

RealDistance(pixel_distance) == (pixel_distance * 1000) \div pixels_per_cm

CalibratedTuple(k, pixel_distance, real_distance) ==
    [pair_num |-> k, real_distance |-> real_distance,
     pixel_distance |-> pixel_distance,
     qc_passed |-> check_qc(k, real_distance, CurrentTargets)]

\* one tuple of current_measurements (lines 2980-3000)
MeasurementOf(k, pixel_distance) ==
    IF is_calibrated
    THEN CalibratedTuple(k, pixel_distance, RealDistance(pixel_distance))
    ELSE [pair_num |-> k, real_distance |-> 0,
          pixel_distance |-> pixel_distance, qc_passed |-> FALSE]

Emitted(m) == m.pair_num # 0

\* the pair loop over a keypoint list (lines 2968-3000)
MeasurePairs(tk) ==
    SelectSeq([k \in 1 .. (ListLen(tk) \div 2) |->
                  IF PairValid(tk, k) THEN MeasurementOf(k, PixelDistance(tk, k))
                  ELSE [pair_num |-> 0, real_distance |-> 0,
                        pixel_distance |-> 0, qc_passed |-> FALSE]],
              Emitted)

NoTuples == [k \in {} |-> [pair_num |-> 0, real_distance |-> 0,
                           pixel_distance |-> 0, qc_passed |-> FALSE]]

\* the dict a loop `for m in measurements: d[m.pair_num] = m` builds from the
\* first n tuples: a later tuple of a pair replaces an earlier one
RECURSIVE DictOfFirst(_, _)
DictOfFirst(measurements, n) ==
    IF n = 0 THEN NoTuples
    ELSE (measurements[n].pair_num :> measurements[n])
            @@ DictOfFirst(measurements, n - 1)

DictOf(measurements) == DictOfFirst(measurements, Len(measurements))

PairsOf(measurements) ==
    {measurements[j].pair_num : j \in DOMAIN measurements}

\* qc_results after check_qc ran on every tuple of a calibrated frame; by_pair
\* is DictOf of the frame's tuples
QcResultsAfter(results, by_pair) ==
    IF ~is_calibrated THEN results
    ELSE [k \in DOMAIN results \cup DOMAIN by_pair |->
            IF k \in DOMAIN by_pair
            THEN IF by_pair[k].qc_passed THEN "PASS" ELSE "FAIL"
            ELSE results[k]]

(***************************************************************************)
(* save_live_measurements: the content written to live_measurements.json.  *)
(***************************************************************************)
FromCurrent(m) ==
    [real_distance |-> m.real_distance, pixel_distance |-> m.pixel_distance,
     qc_passed |-> m.qc_passed, is_fallback |-> FALSE]

FromLast(m) ==
    [real_distance |-> m.real_distance, pixel_distance |-> m.pixel_distance,
     qc_passed |-> m.qc_passed, is_fallback |-> TRUE]

\* the pairs of last_measurements merged in (lines 2684-2696)
MergedPairs(current, cached) ==
    {k \in DOMAIN cached :
        /\ k \notin DOMAIN current
        /\ cached[k].real_distance # None
        /\ cached[k].real_distance > 0}

\* measured_by_pair: the tuples passed in, then the tuples of
\* last_measurements with a positive real distance for pairs not passed in;
\* current and cached are DictOf of the two lists
MeasuredByPair(current, cached) ==
    [k \in DOMAIN current \cup MergedPairs(current, cached) |->
        IF k \in DOMAIN current THEN FromCurrent(current[k])
        ELSE FromLast(cached[k])]

MaxOfSet(S) == IF S = {} THEN 0 ELSE CHOOSE m \in S : \A x \in S : x <= m

MeasuredEntry(pair_num, m, tol_plus, tol_minus) ==
    [id |-> pair_num,
     actual_cm |-> IF m.real_distance # None THEN Round2(m.real_distance)
                   ELSE None,
     pixel_distance |-> m.pixel_distance,
     tolerance_plus |-> tol_plus,
     tolerance_minus |-> tol_minus,
     qc_passed |-> m.qc_passed,
     is_fallback |-> m.is_fallback]

\* the entry of a never-measured pair with 0.0 in place of null
NeverMeasuredEntryZero(pair_num, tol_plus, tol_minus) ==
    [id |-> pair_num, actual_cm |-> 0, pixel_distance |-> 0,
     tolerance_plus |-> tol_plus, tolerance_minus |-> tol_minus,
     qc_passed |-> FALSE, is_fallback |-> TRUE]

\* lines 2715-2720: the pair was never measured
NeverMeasuredEntry(pair_num, tol_plus, tol_minus) ==
    [id |-> pair_num, actual_cm |-> None, pixel_distance |-> 0,
     tolerance_plus |-> tol_plus, tolerance_minus |-> tol_minus,
     qc_passed |-> FALSE, is_fallback |-> TRUE]

SnapshotEntry(pair_num, measured_by_pair, specs) ==
    IF pair_num \in DOMAIN measured_by_pair
    THEN MeasuredEntry(pair_num, measured_by_pair[pair_num],
            IF pair_num \in DOMAIN specs THEN specs[pair_num].tol_plus ELSE 1,
            IF pair_num \in DOMAIN specs THEN specs[pair_num].tol_minus ELSE 1)
    ELSE NeverMeasuredEntry(pair_num,
            IF pair_num \in DOMAIN specs THEN specs[pair_num].tol_plus ELSE 1,
            IF pair_num \in DOMAIN specs THEN specs[pair_num].tol_minus ELSE 1)

SnapshotOf(measured_by_pair) ==
    [side |-> current_side,
     is_calibrated |-> is_calibrated,
     measurements |->
        [pair_num \in 1 .. Max(Len(measurement_specs),
                               MaxOfSet(DOMAIN measured_by_pair)) |->
            SnapshotEntry(pair_num, measured_by_pair, measurement_specs)]]

save_live_measurements(measurements, last) ==
    SnapshotOf(Built(MeasuredByPair(Built(DictOf(measurements)),
                                    Built(DictOf(last)))))

\* the start requests a run of the API server receives
MaxSessions == 3

\* no call has been made
NotCalled == [i \in {-1} |-> Invalid]

NotFused == <<-2, -2>>

NoFuseInput ==
    [type |-> "normal", feat_pt |-> Invalid, temp_pt |-> Invalid,
     matches |-> 0, locked |-> FALSE]

\* the bytes before the image stream in a reference image file
MaxGarbage == 2

\* the keypoints of an annotation file the worker is started on
MaxAnnotationLen == 3

(***************************************************************************)
(* A reference image file is a sequence of pieces: the JPEG or PNG magic   *)
(* bytes, the rest of a complete stream, or other bytes.                   *)
(***************************************************************************)
JpegStream == <<"FFD8", "jpeg data">>

PngStream == <<"89PNG", "png data">>

\* the path names no file
NoImageFile == <<"absent">>

GarbagePrefixes ==
    UNION {[1 .. n -> {"xx"}] : n \in 0 .. MaxGarbage}

ImageFiles ==
    {NoImageFile}
        \cup {g \o body : g \in GarbagePrefixes,
                           body \in {JpegStream, PngStream, <<"xx">>}}

\* cv2.imdecode: the buffer is one complete stream from its first byte
cv2_imdecode(bytes) == bytes \in {JpegStream, PngStream}

\* cv2.imread: None for a missing file and for one that does not decode
cv2_imread(file) == file # NoImageFile /\ cv2_imdecode(file)

\* bytes.find(piece): the offset of its first occurrence, -1 without one
Find(bytes, piece) ==
    IF \E i \in DOMAIN bytes : bytes[i] = piece
    THEN (CHOOSE i \in DOMAIN bytes :
             /\ bytes[i] = piece
             /\ \A j \in DOMAIN bytes : bytes[j] = piece => i <= j) - 1
    ELSE -1

\* integration_backup.py 153-256: imread, then the buffer trimmed to the
\* JPEG marker found past offset 0, else to the PNG one, and imdecode
backup_load_reference_image(file) ==
    IF file = NoImageFile THEN FALSE
    ELSE IF cv2_imread(file) THEN TRUE
    ELSE LET jpeg_marker == Find(file, "FFD8")
             png_marker == Find(file, "89PNG")
             raw_bytes == IF jpeg_marker > 0
                          THEN SubSeq(file, jpeg_marker + 1, Len(file))
                          ELSE IF png_marker > 0
                          THEN SubSeq(file, png_marker + 1, Len(file))
                          ELSE file
         IN  cv2_imdecode(raw_bytes)

\* the image file written next to an annotation with keypoints
ImageOf(ann) == IF DOMAIN ann.keypoints = {} THEN NoImageFile ELSE JpegStream

\* the calls of save_live_measurements followed write by write
MaxSaves == 3

\* the writes json.dump takes to put one snapshot into a file
FileChunks == 2

\* a path without a file, and a reader that has not read
NoFile == [version |-> 0, written |-> 0]

NotRead == [version |-> 0, written |-> -1]

\* open(path, 'w'): the file exists and is empty
Opened(version) == [version |-> version, written |-> 0]

\* the file holds the whole JSON document
Complete(file) == file # NoFile /\ file.written = FileChunks

\* a run_measurement thread that has not been started
NoThread == [pc |-> "none", proc |-> None]

(***************************************************************************)
(* The state when transfer_keypoints_to_live enters its loop: the worker   *)
(* has loaded the front annotation (it exits otherwise), maybe a back      *)
(* annotation and a calibration, and lines 2881-2890 have run.             *)
(***************************************************************************)
InitState(front, back, calibrated, specs, side, at) ==
    /\ worker_pc = at
    /\ exit_code = None
    /\ homography_result = NotCalled
    /\ fuse_result = NotFused
    /\ keypoints = front.keypoints
    /\ keypoint_types = front.types
    /\ target_distances = front.targets
    /\ back_keypoints = back.keypoints
    /\ back_keypoint_types = back.types
    /\ back_target_distances = back.targets
    /\ is_calibrated = calibrated
    /\ pixels_per_cm = IF calibrated THEN CalibratedPixelsPerCm ELSE 0
    /\ measurement_specs = specs
    /\ keypoints_data = FileOf(front)
    /\ back_keypoints_data = FileOf(back)
    /\ headless = TRUE
    /\ should_stop = FALSE
    /\ measurement_process = None
    /\ measurement_running = FALSE
    /\ workers_alive = {}
    /\ run_threads = [t \in 1 .. MaxSessions |-> NoThread]
    /\ start_pc = "idle"
    /\ sessions = 0
    /\ stop_requested = {}
    /\ results_file = NoFile
    /\ temp_file = NoFile
    /\ save_pc = "idle"
    /\ saves = 0
    /\ reader_data = NotRead
    /\ current_side = side
    /\ transferred_keypoints = EmptyList
    /\ is_keypoints_transferred = FALSE
    /\ last_valid_keypoints = EmptyList
    /\ keypoint_stabilized = FALSE
    /\ stabilization_frames = 0
    /\ perpendicular_points_initialized = FALSE
    /\ perpendicular_points_static_map = EmptyMap
    /\ last_detected_scale = InitialScale
    /\ last_measurements = <<>>
    /\ qc_results = NoResults
    /\ paused = FALSE
    /\ zoom_factor = 0
    /\ pan_x = 0
    /\ perpendicular_static_mode = TRUE
    /\ current_measurements = <<>>
    /\ since_last_transfer = transfer_interval
    /\ pc = "loop"
    /\ snapshot = NoSnapshot
    /\ fused_points = EmptyList
    /\ previous_valid = EmptyList
    /\ frame_input = NoFrame
    /\ engine_points = EmptyList
    /\ transfer_path = "none"
    /\ saved = FALSE
    /\ ever_measured = {}
    /\ last_good = NoLastGood
    /\ side_measured = [side |-> side, by_pair |-> NoTuples]
    /\ frames_processed = 0
    /\ elapsed = None

\* the worker has reached the loop with a clean image for each side loaded
InitSession(front, back, calibrated, specs, side) ==
    /\ InitState(front, back, calibrated, specs, side, "loop")
    /\ homography_input = NoFrame
    /\ fuse_input = NoFuseInput
    /\ reference_image_file = ImageOf(front)
    /\ back_reference_image_file = ImageOf(back)
    /\ reference_image = cv2_imread(ImageOf(front))
    /\ back_reference_image = cv2_imread(ImageOf(back))

\* sessions on a four-keypoint garment, calibrated with a back annotation
\* and started on either side, and an uncalibrated session on five keypoints
\* without back annotation or specs
Init ==
    \/ InitSession(Ann4, Back4, TRUE, Specs3, "front")
    \/ InitSession(Ann4, Back4, TRUE, Specs3, "back")
    \/ InitSession(Ann5, NoAnnotation, FALSE, <<>>, "front")

\* a session on a garment with 18 keypoints, six of them perpendicular
InitLock == InitSession(Ann18, Back4, TRUE, Specs3, "front")

(***************************************************************************)
(* One loop iteration up to cv2.waitKey (lines 2895-3047).                 *)
(***************************************************************************)
Elapsed(dt) == Min(since_last_transfer + dt, transfer_interval)

\* the tuples built on the current side since the switch to it
MeasuredOnSide ==
    IF side_measured.side = current_side THEN side_measured.by_pair
    ELSE NoTuples

\* lines 2925-3014 on the keypoint list tk: the pair loop, the update of
\* last_measurements and, unless paused, the snapshot of the frame
MeasureAndSave(tk, transferred) ==
    \E measurements \in {IF transferred /\ ListLen(tk) > 0
                          THEN MeasurePairs(tk) ELSE <<>>} :
    \E last \in {IF Len(measurements) > 0 THEN measurements
                  ELSE last_measurements} :
    \E payload \in {IF Len(measurements) > 0 THEN measurements ELSE last} :
    \E by_pair \in {DictOf(measurements)} :
        /\ current_measurements' = measurements
        /\ last_measurements' = last
        /\ qc_results' = QcResultsAfter(qc_results, by_pair)
        /\ snapshot' = IF paused THEN snapshot
                       ELSE save_live_measurements(payload, last)
        /\ saved' = ~paused
        /\ ever_measured' = ever_measured \cup DOMAIN by_pair
        /\ last_good' =
              IF ~is_calibrated THEN last_good
              ELSE [last_good EXCEPT ![current_side] =
                      [k \in DOMAIN @ \cup DOMAIN by_pair |->
                          IF k \in DOMAIN by_pair
                          THEN Round2(by_pair[k].real_distance)
                          ELSE @[k]]]
        /\ side_measured' =
              [side |-> current_side,
               by_pair |-> [k \in DOMAIN MeasuredOnSide \cup DOMAIN by_pair |->
                              IF k \in DOMAIN by_pair THEN by_pair[k]
                              ELSE MeasuredOnSide[k]]]

\* the camera returned no frame: `continue`
CaptureFail ==
    /\ pc = "loop"
    /\ ~paused
    /\ \E dt \in 0 .. transfer_interval :
          since_last_transfer' = Elapsed(dt)
    /\ since_last_transfer' # since_last_transfer
    /\ UNCHANGED <<configVars, outsideVars, trackingVars, viewVars, historyVars,
                   current_side, transferred_keypoints,
                   is_keypoints_transferred, last_measurements, qc_results,
                   paused, perpendicular_static_mode, current_measurements,
                   pc, snapshot, fused_points, transfer_path,
                   previous_valid, frame_input, engine_points>>

\* a throttle that lets the transfer step run on every frame
ProcessFrameUnthrottled ==
    /\ pc = "loop"
    /\ ~paused
    /\ \E dt \in 0 .. transfer_interval : elapsed' = Elapsed(dt)
    /\ frames_processed < MaxFrames
    /\ frames_processed' = frames_processed + 1
    /\ \E inp \in FrameInputs(CurrentKeypoints) :
        \E r \in {transfer_keypoints_robust(inp)} :
        \E transferred \in {is_keypoints_transferred \/ ListLen(r.out) > 0} :
              /\ transferred_keypoints' = r.out
              /\ is_keypoints_transferred' = transferred
              /\ last_valid_keypoints' = r.last_valid
              /\ keypoint_stabilized' = r.stabilized
              /\ stabilization_frames' = r.frames
              /\ perpendicular_points_initialized' = r.initialized
              /\ perpendicular_points_static_map' = r.static_map
              /\ last_detected_scale' = r.scale
              /\ fused_points' = r.fused
              /\ previous_valid' = last_valid_keypoints
              /\ frame_input' = inp
              /\ engine_points' = r.feature
              /\ transfer_path' = r.path
              /\ MeasureAndSave(r.out, transferred)
    /\ since_last_transfer' = 0
    /\ pc' = "key"
    /\ UNCHANGED <<configVars, outsideVars, viewVars, current_side, paused,
                   perpendicular_static_mode>>

\* a frame on which the transfer step runs
ProcessFrame ==
    /\ pc = "loop"
    /\ ~paused
    /\ \E dt \in 0 .. transfer_interval :
          /\ Elapsed(dt) >= transfer_interval
          /\ elapsed' = Elapsed(dt)
    /\ frames_processed < MaxFrames
    /\ frames_processed' = frames_processed + 1
    /\ \E inp \in FrameInputs(CurrentKeypoints) :
        \E r \in {transfer_keypoints_robust(inp)} :
        \E transferred \in {is_keypoints_transferred \/ ListLen(r.out) > 0} :
              /\ transferred_keypoints' = r.out
              /\ is_keypoints_transferred' = transferred
              /\ last_valid_keypoints' = r.last_valid
              /\ keypoint_stabilized' = r.stabilized
              /\ stabilization_frames' = r.frames
              /\ perpendicular_points_initialized' = r.initialized
              /\ perpendicular_points_static_map' = r.static_map
              /\ last_detected_scale' = r.scale
              /\ fused_points' = r.fused
              /\ previous_valid' = last_valid_keypoints
              /\ frame_input' = inp
              /\ engine_points' = r.feature
              /\ transfer_path' = r.path
              /\ MeasureAndSave(r.out, transferred)
    /\ since_last_transfer' = 0
    /\ pc' = "key"
    /\ UNCHANGED <<configVars, outsideVars, viewVars, current_side, paused,
                   perpendicular_static_mode>>

\* a frame captured less than transfer_interval after the last transfer
ThrottledFrame ==
    /\ pc = "loop"
    /\ ~paused
    /\ \E dt \in 0 .. transfer_interval :
          /\ Elapsed(dt) < transfer_interval
          /\ since_last_transfer' = Elapsed(dt)
          /\ elapsed' = Elapsed(dt)
    /\ MeasureAndSave(transferred_keypoints, is_keypoints_transferred)
    /\ transfer_path' = "throttled"
    /\ UNCHANGED frames_processed
    /\ pc' = "key"
    /\ UNCHANGED <<configVars, outsideVars, trackingVars, viewVars, current_side,
                   transferred_keypoints, is_keypoints_transferred, paused,
                   perpendicular_static_mode, fused_points, previous_valid,
                   frame_input, engine_points>>

\* a paused iteration that forgets the last valid keypoints
PausedFrameForgets ==
    /\ pc = "loop"
    /\ paused
    /\ \E dt \in 0 .. transfer_interval :
          since_last_transfer' = Elapsed(dt)
    /\ MeasureAndSave(transferred_keypoints, is_keypoints_transferred)
    /\ transfer_path' = "paused"
    /\ UNCHANGED <<frames_processed, elapsed>>
    /\ pc' = "key"
    /\ last_valid_keypoints' = EmptyList
    /\ UNCHANGED <<configVars, outsideVars, keypoint_stabilized,
                   stabilization_frames, perpendicular_points_initialized,
                   perpendicular_points_static_map, last_detected_scale,
                   viewVars, current_side,
                   transferred_keypoints, is_keypoints_transferred, paused,
                   perpendicular_static_mode, fused_points, previous_valid,
                   frame_input, engine_points>>

\* an iteration while paused: no capture, no transfer, no snapshot
PausedFrame ==
    /\ pc = "loop"
    /\ paused
    /\ \E dt \in 0 .. transfer_interval :
          since_last_transfer' = Elapsed(dt)
    /\ MeasureAndSave(transferred_keypoints, is_keypoints_transferred)
    /\ transfer_path' = "paused"
    /\ UNCHANGED <<frames_processed, elapsed>>
    /\ pc' = "key"
    /\ UNCHANGED <<configVars, outsideVars, trackingVars, viewVars, current_side,
                   transferred_keypoints, is_keypoints_transferred, paused,
                   perpendicular_static_mode, fused_points, previous_valid,
                   frame_input, engine_points>>

(***************************************************************************)
(* Key handling of the iteration (lines 3049-3106).                        *)
(***************************************************************************)
\* line 3045: the test that ends the headless loop before waitKey
StopRequested == headless /\ should_stop

\* what no key handler touches; the record of what the iteration did
\* (saved, transfer_path, fused_points, previous_valid) ends with the
\* iteration
KeyUnchanged ==
    /\ ~StopRequested
    /\ elapsed' = None
    /\ saved' = FALSE
    /\ transfer_path' = "none"
    /\ fused_points' = EmptyList
    /\ previous_valid' = EmptyList
    /\ frame_input' = NoFrame
    /\ engine_points' = EmptyList
    /\ UNCHANGED <<configVars, outsideVars, ever_measured, last_good,
                   side_measured, frames_processed,
                   last_measurements, qc_results, current_measurements,
                   since_last_transfer, snapshot>>

\* no key, or a key without a handler
KeyNone ==
    /\ pc = "key"
    /\ pc' = "loop"
    /\ KeyUnchanged
    /\ UNCHANGED <<trackingVars, viewVars, current_side,
                   transferred_keypoints, is_keypoints_transferred, paused,
                   perpendicular_static_mode>>

\* q: leave the loop
KeyQuit ==
    /\ pc = "key"
    /\ pc' = "done"
    /\ KeyUnchanged
    /\ UNCHANGED <<trackingVars, viewVars, current_side,
                   transferred_keypoints, is_keypoints_transferred, paused,
                   perpendicular_static_mode>>

\* lines 3045-3047: the stop flag is set, leave the loop
StopExit ==
    /\ pc = "key"
    /\ StopRequested
    /\ pc' = "done"
    /\ elapsed' = None
    /\ saved' = FALSE
    /\ transfer_path' = "none"
    /\ fused_points' = EmptyList
    /\ previous_valid' = EmptyList
    /\ frame_input' = NoFrame
    /\ engine_points' = EmptyList
    /\ UNCHANGED <<configVars, outsideVars, trackingVars, viewVars,
                   ever_measured, last_good, side_measured,
                   frames_processed, current_side, transferred_keypoints,
                   is_keypoints_transferred, last_measurements, qc_results,
                   paused, perpendicular_static_mode, current_measurements,
                   since_last_transfer, snapshot>>

\* another thread of the worker sets measurer.should_stop
RequestStop ==
    /\ ~should_stop
    /\ pc # "done"
    /\ should_stop' = TRUE
    /\ UNCHANGED <<configVars, apiVars, fileVars, startupVars, callVars, trackingVars, viewVars, historyVars,
                   current_side, transferred_keypoints,
                   is_keypoints_transferred, last_measurements, qc_results,
                   paused, perpendicular_static_mode, current_measurements,
                   since_last_transfer, pc, snapshot, fused_points,
                   transfer_path, previous_valid, frame_input,
                   engine_points>>

\* p: pause or resume
KeyPause ==
    /\ pc = "key"
    /\ paused' = ~paused
    /\ pc' = "loop"
    /\ KeyUnchanged
    /\ UNCHANGED <<trackingVars, viewVars, current_side,
                   transferred_keypoints, is_keypoints_transferred,
                   perpendicular_static_mode>>

\* the y key dropping the lock when the static mode is left
KeyToggleStaticUnlocks ==
    /\ pc = "key"
    /\ perpendicular_static_mode' = ~perpendicular_static_mode
    /\ perpendicular_points_initialized' = FALSE
    /\ perpendicular_points_static_map' = EmptyMap
    /\ pc' = "loop"
    /\ KeyUnchanged
    /\ UNCHANGED <<viewVars,
                   last_valid_keypoints, keypoint_stabilized,
                   stabilization_frames, last_detected_scale, current_side,
                   transferred_keypoints, is_keypoints_transferred, paused>>

\* y: toggle the static mode of the perpendicular points; switching back to
\* static re-applies the locked positions to transferred_keypoints.  When
\* transferred_keypoints is the list object of last_valid_keypoints its perp
\* entries already are the locked positions, so the write changes nothing
\* there.
KeyToggleStatic ==
    /\ pc = "key"
    /\ IF perpendicular_points_initialized
       THEN /\ perpendicular_static_mode' = ~perpendicular_static_mode
            /\ transferred_keypoints' =
                  IF perpendicular_static_mode' 
                  THEN [i \in DOMAIN transferred_keypoints |->
                          IF i \in DOMAIN perpendicular_points_static_map
                          THEN perpendicular_points_static_map[i]
                          ELSE transferred_keypoints[i]]
                  ELSE transferred_keypoints
       ELSE UNCHANGED <<perpendicular_static_mode, transferred_keypoints>>
    /\ pc' = "loop"
    /\ KeyUnchanged
    /\ UNCHANGED <<trackingVars, viewVars, current_side,
                   is_keypoints_transferred, paused>>

\* switch_to_back_side / switch_to_front_side: TRUE when the switch is made
CanSwitchTo(side) ==
    IF side = "back" THEN ListLen(back_keypoints) > 0
    ELSE ListLen(keypoints) > 0

\* b: switch side (lines 3070-3082 with 2809-2846)
KeySwitchSide ==
    /\ pc = "key"
    /\ LET target == IF current_side = "front" THEN "back" ELSE "front"
       IN  IF CanSwitchTo(target)
           THEN /\ current_side' = target
                /\ transferred_keypoints' = EmptyList
                /\ is_keypoints_transferred' = FALSE
                /\ keypoint_stabilized' = FALSE
                /\ last_valid_keypoints' = EmptyList
                /\ stabilization_frames' = 0
                /\ perpendicular_points_initialized' = FALSE
                /\ perpendicular_points_static_map' = EmptyMap
                /\ UNCHANGED last_detected_scale
           ELSE UNCHANGED <<current_side, transferred_keypoints,
                            is_keypoints_transferred, trackingVars>>
    /\ pc' = "loop"
    /\ KeyUnchanged
    /\ UNCHANGED <<viewVars, paused, perpendicular_static_mode>>

\* z / x / r: zoom in, zoom out, reset zoom and pan
KeyZoom ==
    /\ pc = "key"
    /\ \/ /\ zoom_factor < MaxZoomLevel
          /\ zoom_factor' = zoom_factor + 1
          /\ UNCHANGED pan_x
       \/ /\ zoom_factor' = Max(0, zoom_factor - 1)
          /\ UNCHANGED pan_x
       \/ /\ zoom_factor' = 0
          /\ pan_x' = 0
    /\ pc' = "loop"
    /\ KeyUnchanged
    /\ UNCHANGED <<trackingVars, current_side, transferred_keypoints,
                   is_keypoints_transferred, paused,
                   perpendicular_static_mode>>

\* arrow keys: pan left or right
KeyPan ==
    /\ pc = "key"
    /\ \E d \in {-1, 1} :
          /\ pan_x + d \in 0 .. MaxPan
          /\ pan_x' = pan_x + d
    /\ UNCHANGED zoom_factor
    /\ pc' = "loop"
    /\ KeyUnchanged
    /\ UNCHANGED <<trackingVars, current_side, transferred_keypoints,
                   is_keypoints_transferred, paused,
                   perpendicular_static_mode>>

Next ==
    \/ CaptureFail
    \/ ProcessFrame
    \/ ThrottledFrame
    \/ PausedFrame
    \/ KeyNone
    \/ KeyQuit
    \/ KeyPause
    \/ KeyToggleStatic
    \/ KeySwitchSide
    \/ KeyZoom
    \/ KeyPan

Spec == Init /\ [][Next]_vars

SpecLock == InitLock /\ [][Next]_vars

\* a headless session whose stop flag may be set at any moment
InitStop == InitSession(Ann5, NoAnnotation, FALSE, <<>>, "front")

NextStop ==
    \/ Next
    \/ RequestStop
    \/ StopExit

SpecStop == InitStop /\ [][NextStop]_vars

(***************************************************************************)
(* The API server (core_main.py): start_measurement, its run_measurement   *)
(* threads and stop_measurement share measurement_process and              *)
(* measurement_status without a lock.  A worker process is named by the    *)
(* number of the session that spawned it.                                  *)
(***************************************************************************)
\* everything but the state of the API server
workerVars ==
    <<configVars, should_stop, trackingVars, viewVars, historyVars,
      current_side, transferred_keypoints, is_keypoints_transferred,
      last_measurements, qc_results, paused,
      perpendicular_static_mode, current_measurements, since_last_transfer,
      pc, snapshot, fused_points, transfer_path, previous_valid,
      frame_input, engine_points, fileVars, startupVars, callVars>>

\* lines 432-439, 962-969: kill the process measurement_process names; an
\* exited process raises in psutil.Process and the handler goes on
KillExisting(alive, process) ==
    IF process # None THEN alive \ {process} ELSE alive

\* lines 429-441: stop any existing measurement before starting a new one
start_measurement ==
    /\ start_pc = "idle"
    /\ sessions < MaxSessions
    /\ sessions' = sessions + 1
    /\ start_pc' = "launch"
    /\ IF measurement_running
       THEN /\ workers_alive' = KillExisting(workers_alive, measurement_process)
            /\ measurement_running' = FALSE
            /\ stop_requested' = stop_requested \cup 1 .. sessions
       ELSE UNCHANGED <<workers_alive, measurement_running, stop_requested>>
    /\ UNCHANGED <<workerVars, measurement_process, run_threads>>

\* lines 885-932: mark the session running and start its thread
start_measurement_thread ==
    /\ start_pc = "launch"
    /\ start_pc' = "idle"
    /\ measurement_running' = TRUE
    /\ run_threads' = [run_threads EXCEPT ![sessions].pc = "Popen"]
    /\ UNCHANGED <<workerVars, measurement_process, workers_alive, sessions,
                   stop_requested>>

\* lines 905-913: the thread spawns its worker
run_measurement_Popen(t) ==
    /\ run_threads[t].pc = "Popen"
    /\ measurement_process' = t
    /\ workers_alive' = workers_alive \cup {t}
    /\ run_threads' = [run_threads EXCEPT ![t].pc = "call_wait"]
    /\ UNCHANGED <<workerVars, measurement_running, start_pc, sessions,
                   stop_requested>>

\* line 915: wait() is called on what measurement_process names now; on
\* None the AttributeError is caught at line 923
run_measurement_call_wait(t) ==
    /\ run_threads[t].pc = "call_wait"
    /\ run_threads' =
          [run_threads EXCEPT
              ![t] = IF measurement_process = None
                     THEN [pc |-> "finally", proc |-> None]
                     ELSE [pc |-> "wait", proc |-> measurement_process]]
    /\ UNCHANGED <<workerVars, measurement_process, measurement_running,
                   workers_alive, start_pc, sessions, stop_requested>>

\* lines 915-925: the process waited for has exited
run_measurement_wait(t) ==
    /\ run_threads[t].pc = "wait"
    /\ run_threads[t].proc \notin workers_alive
    /\ run_threads' = [run_threads EXCEPT ![t].pc = "finally"]
    /\ UNCHANGED <<workerVars, measurement_process, measurement_running,
                   workers_alive, start_pc, sessions, stop_requested>>

\* lines 926-928
run_measurement_finally(t) ==
    /\ run_threads[t].pc = "finally"
    /\ measurement_running' = FALSE
    /\ measurement_process' = None
    /\ run_threads' = [run_threads EXCEPT ![t].pc = "done"]
    /\ UNCHANGED <<workerVars, workers_alive, start_pc, sessions,
                   stop_requested>>

\* lines 950-988: the request is refused when nothing is running
stop_measurement ==
    /\ measurement_running
    /\ workers_alive' = KillExisting(workers_alive, measurement_process)
    /\ measurement_running' = FALSE
    /\ stop_requested' = stop_requested \cup 1 .. sessions
    /\ UNCHANGED <<workerVars, measurement_process, run_threads, start_pc,
                   sessions>>

\* lines 956-960: a stop request while running is false is answered with
\* 'No measurement running'
stop_measurement_refused ==
    /\ ~measurement_running
    /\ sessions > 0
    /\ stop_requested' = stop_requested \cup 1 .. sessions
    /\ stop_requested' # stop_requested
    /\ UNCHANGED <<workerVars, measurement_process, measurement_running,
                   workers_alive, run_threads, start_pc, sessions>>

\* lines 218-228: the status request finds that the process
\* measurement_process names has exited
get_measurement_status ==
    /\ measurement_process # None
    /\ measurement_process \notin workers_alive
    /\ measurement_process' = None
    /\ measurement_running' = FALSE
    /\ UNCHANGED <<workerVars, workers_alive, run_threads, start_pc, sessions,
                   stop_requested>>

\* a worker ends by itself: q, a failed start, a crash
WorkerExits(w) ==
    /\ w \in workers_alive
    /\ workers_alive' = workers_alive \ {w}
    /\ UNCHANGED <<workerVars, measurement_process, measurement_running,
                   run_threads, start_pc, sessions, stop_requested>>

\* the API server as started, no request received
InitApi == InitSession(NoAnnotation, NoAnnotation, FALSE, <<>>, "front")

NextApi ==
    \/ start_measurement
    \/ start_measurement_thread
    \/ stop_measurement
    \/ stop_measurement_refused
    \/ get_measurement_status
    \/ \E t \in 1 .. MaxSessions :
          \/ run_measurement_Popen(t)
          \/ run_measurement_call_wait(t)
          \/ run_measurement_wait(t)
          \/ run_measurement_finally(t)
          \/ WorkerExits(t)

SpecApi == InitApi /\ [][NextApi]_vars

(***************************************************************************)
(* save_live_measurements write by write (integration.py 2741-2750), with  *)
(* the reader of core_main.py.  A snapshot is named by the number of the   *)
(* save that wrote it.                                                     *)
(***************************************************************************)
\* everything but the files
nonFileVars ==
    <<configVars, should_stop, apiVars, trackingVars, viewVars, historyVars,
      current_side, transferred_keypoints, is_keypoints_transferred,
      last_measurements, qc_results, paused,
      perpendicular_static_mode, current_measurements, since_last_transfer,
      pc, snapshot, fused_points, transfer_path, previous_valid,
      frame_input, engine_points, startupVars, callVars>>

\* line 2743: open(temp_file, 'w')
save_open_temp ==
    /\ save_pc = "idle"
    /\ saves < MaxSaves
    /\ saves' = saves + 1
    /\ temp_file' = Opened(saves + 1)
    /\ save_pc' = "temp"
    /\ UNCHANGED <<nonFileVars, results_file, reader_data>>

\* line 2744: json.dump writes into the temp file; the file is closed after
\* the last write
save_write_temp ==
    /\ save_pc = "temp"
    /\ temp_file' = [temp_file EXCEPT !.written = @ + 1]
    /\ save_pc' = IF temp_file.written + 1 = FileChunks THEN "replace"
                  ELSE "temp"
    /\ UNCHANGED <<nonFileVars, results_file, saves, reader_data>>

\* lines 2743-2744 raise IOError or OSError
save_temp_fails ==
    /\ save_pc = "temp"
    /\ save_pc' = "fallback"
    /\ UNCHANGED <<nonFileVars, results_file, temp_file, saves, reader_data>>

\* line 2745: os.replace(temp_file, results_file)
save_replace ==
    /\ save_pc = "replace"
    /\ results_file' = temp_file
    /\ temp_file' = NoFile
    /\ save_pc' = "idle"
    /\ UNCHANGED <<nonFileVars, saves, reader_data>>

\* line 2745 raises OSError
save_replace_fails ==
    /\ save_pc = "replace"
    /\ save_pc' = "fallback"
    /\ UNCHANGED <<nonFileVars, results_file, temp_file, saves, reader_data>>

\* line 2749: open(results_file, 'w') truncates the live file
save_fallback_open ==
    /\ save_pc = "fallback"
    /\ results_file' = Opened(saves)
    /\ save_pc' = "direct"
    /\ UNCHANGED <<nonFileVars, temp_file, saves, reader_data>>

\* line 2750: json.dump writes into the live file
save_fallback_write ==
    /\ save_pc = "direct"
    /\ results_file' = [results_file EXCEPT !.written = @ + 1]
    /\ save_pc' = IF results_file.written + 1 = FileChunks THEN "idle"
                  ELSE "direct"
    /\ UNCHANGED <<nonFileVars, temp_file, saves, reader_data>>

\* core_main.py 994-1011: the reader opens the live file and reads it
get_live_measurements ==
    /\ reader_data' = results_file
    /\ reader_data' # reader_data
    /\ UNCHANGED <<nonFileVars, results_file, temp_file, save_pc, saves>>

\* core_main.py 443-454: a start request removes the stale live file
remove_stale_file ==
    /\ results_file # NoFile
    /\ save_pc \in {"idle", "temp", "replace"}
    /\ results_file' = NoFile
    /\ UNCHANGED <<nonFileVars, temp_file, save_pc, saves, reader_data>>

InitSave == InitSession(Ann5, NoAnnotation, FALSE, <<>>, "front")

NextSave ==
    \/ save_open_temp
    \/ save_write_temp
    \/ save_temp_fails
    \/ save_replace
    \/ save_replace_fails
    \/ save_fallback_open
    \/ save_fallback_write
    \/ get_live_measurements
    \/ remove_stale_file

SpecSave == InitSave /\ [][NextSave]_vars

(***************************************************************************)
(* Loading of the annotation files by the worker, before the loop starts.  *)
(* An entry of 'keypoints' is [x, y, role] or, in the legacy format,       *)
(* [x, y]; the model keeps the role column, "untyped" for a legacy entry.  *)
(***************************************************************************)
Roles == {"normal", "corner", "perp"}

UntypedFile(n) == [i \in 0 .. n - 1 |-> "untyped"]

\* the files read: every entry untyped, every entry with the same role, or
\* one typed entry at either end of an otherwise untyped file
AnnotationFiles ==
    UNION {{UntypedFile(n)}
              \cup {[i \in 0 .. n - 1 |-> r] : r \in Roles}
              \cup {[UntypedFile(n) EXCEPT ![j] = r] :
                       j \in {0, n - 1} \cap (0 .. n - 1), r \in Roles}
           : n \in 0 .. MaxFileLen}

\* the first pass over keypoints_data (lines 272-280)
TypesAsWritten(data) ==
    [i \in DOMAIN data |-> IF data[i] # "untyped" THEN data[i] ELSE "normal"]

\* legacy inference by position (lines 288-293)
InferredTypes(types) ==
    [i \in DOMAIN types |->
        IF i < 12 THEN "corner" ELSE IF i < 18 THEN "perp" ELSE types[i]]

\* legacy inference applied whenever every loaded type is 'normal'
LoadedTypesAllNormal(types, data) ==
    IF DOMAIN types # {} /\ \A i \in DOMAIN types : types[i] = "normal"
    THEN InferredTypes(types)
    ELSE types

\* keypoint_types after the load, from the types of the first pass
LoadedTypes(types, data) ==
    IF DOMAIN types # {} /\ \A i \in DOMAIN types : types[i] = "normal"
    THEN IF \E i \in DOMAIN data : data[i] # "untyped"
         THEN types
         ELSE InferredTypes(types)
    ELSE types

load_annotation ==
    /\ keypoints_data = NotLoaded
    /\ \E data \in AnnotationFiles :
          /\ keypoints_data' = data
          /\ keypoints' = [i \in DOMAIN data |-> RefPoint(i)]
          /\ keypoint_types' = LoadedTypes(TypesAsWritten(data), data)
    /\ UNCHANGED <<target_distances, back_keypoints, back_keypoint_types,
                   back_target_distances, is_calibrated, pixels_per_cm,
                   measurement_specs, back_keypoints_data, headless,
                   outsideVars, trackingVars, viewVars, historyVars,
                   current_side, transferred_keypoints,
                   is_keypoints_transferred, last_measurements, qc_results,
                   paused, perpendicular_static_mode, current_measurements,
                   since_last_transfer, pc, snapshot, fused_points,
                   transfer_path, previous_valid, frame_input,
                   engine_points>>

\* the worker loads the back annotation after the front one has loaded
load_back_annotation ==
    /\ keypoints_data # NotLoaded
    /\ DOMAIN keypoints # {}
    /\ back_keypoints_data = NotLoaded
    /\ \E data \in AnnotationFiles :
          /\ back_keypoints_data' = data
          /\ back_keypoints' = [i \in DOMAIN data |-> BackRefPoint(i)]
          /\ back_keypoint_types' = LoadedTypes(TypesAsWritten(data), data)
    /\ UNCHANGED <<keypoints, keypoint_types, target_distances,
                   back_target_distances, is_calibrated, pixels_per_cm,
                   measurement_specs, keypoints_data, headless,
                   outsideVars, trackingVars, viewVars, historyVars,
                   current_side, transferred_keypoints,
                   is_keypoints_transferred, last_measurements, qc_results,
                   paused, perpendicular_static_mode, current_measurements,
                   since_last_transfer, pc, snapshot, fused_points,
                   transfer_path, previous_valid, frame_input,
                   engine_points>>

\* the measurer as constructed, no annotation read
InitLoad == InitSession(NoAnnotation, NoAnnotation, FALSE, <<>>, "front")

NextLoad == load_annotation \/ load_back_annotation

SpecLoad == InitLoad /\ [][NextLoad]_vars

(***************************************************************************)
(* transfer_with_homography (integration.py 851-887) called once on a      *)
(* matching outcome: the number of matches, whether findHomography gave a  *)
(* matrix, and its determinant in hundredths.                              *)
(***************************************************************************)
\* everything but the single calls
nonCallVars ==
    <<configVars, should_stop, apiVars, fileVars, startupVars,
      trackingVars, viewVars, historyVars, current_side,
      transferred_keypoints, is_keypoints_transferred,
      last_measurements, qc_results, paused,
      perpendicular_static_mode, current_measurements,
      since_last_transfer, pc, snapshot, fused_points,
      transfer_path, previous_valid, frame_input, engine_points>>

Determinants ==
    {-2000, -1000, -100, -10, -5, 0, 5, DetLow, DetLow + 1, 100,
     DetHigh - 1, DetHigh, 2000}

HomographyInputs ==
    {[feature |-> [desc |-> TRUE, n |-> n, hom |-> h, det |-> d,
                   shift |-> JumpPx, median |-> 10],
      drop |-> {}, jump |-> {}, corner |-> "none"] :
        n \in {min_matches - 1, min_matches, HomographyMinMatches},
        h \in BOOLEAN, d \in Determinants}

call_transfer_with_homography ==
    /\ homography_result = NotCalled
    /\ homography_result' =
          transfer_with_homography(homography_input, CurrentKeypoints)
    /\ UNCHANGED <<nonCallVars, homography_input, fuse_input, fuse_result>>

InitHomography ==
    /\ InitState(Ann4, Back4, TRUE, Specs3, "front", "loop")
    /\ reference_image_file = ImageOf(Ann4)
    /\ back_reference_image_file = ImageOf(Back4)
    /\ reference_image = TRUE
    /\ back_reference_image = TRUE
    /\ homography_input \in HomographyInputs
    /\ fuse_input = NoFuseInput

(***************************************************************************)
(* The fusion of one index (integration.py 1299-1364) on given candidates. *)
(***************************************************************************)
\* the locked position of the index, when the Static-Lock Map holds it
LockedPoint == <<90, 100>>

FuseInputs ==
    [type : {"normal", "perp"},
     feat_pt : {Invalid, <<100, 100>>},
     temp_pt : {Invalid, <<120, 100>>, <<125, 100>>, <<130, 100>>},
     matches : {min_matches - 1, min_matches, HomographyMinMatches},
     locked : BOOLEAN]

call_FusePoint ==
    /\ fuse_result = NotFused
    /\ fuse_result' =
          FusePoint(0, [i \in {0} |-> fuse_input.type],
                    [i \in {0} |-> fuse_input.feat_pt],
                    [i \in {0} |-> fuse_input.temp_pt], <<>>,
                    fuse_input.matches, fuse_input.locked,
                    IF fuse_input.locked THEN [i \in {0} |-> LockedPoint]
                    ELSE EmptyMap)
    /\ UNCHANGED <<nonCallVars, homography_input, homography_result,
                   fuse_input>>

InitFuse ==
    /\ InitState(Ann4, Back4, TRUE, Specs3, "front", "loop")
    /\ reference_image_file = ImageOf(Ann4)
    /\ back_reference_image_file = ImageOf(Back4)
    /\ reference_image = TRUE
    /\ back_reference_image = TRUE
    /\ homography_input = NoFrame
    /\ fuse_input \in FuseInputs

SpecFuse == InitFuse /\ [][call_FusePoint]_vars

SpecHomography == InitHomography /\ [][call_transfer_with_homography]_vars

(***************************************************************************)
(* run_headless_measurement (measurement_worker.py 44-171), from the       *)
(* reading of measurement_config.json to the call of                       *)
(* transfer_keypoints_to_live.  sys.exit raises SystemExit, which the      *)
(* `except Exception` of line 166 does not catch.                          *)
(***************************************************************************)
\* what the start of the worker leaves alone
loopVars ==
    <<headless, should_stop, apiVars, fileVars, trackingVars, viewVars,
      historyVars, transferred_keypoints, is_keypoints_transferred,
      last_measurements, qc_results, paused, perpendicular_static_mode,
      current_measurements, since_last_transfer, pc, snapshot, fused_points,
      transfer_path, previous_valid, frame_input, engine_points,
      measurement_specs, target_distances, back_target_distances,
      keypoints_data, back_keypoints_data,
      reference_image_file, back_reference_image_file, callVars>>

\* the annotation files the worker is started on, in the legacy format
WorkerAnnotationFiles == {UntypedFile(n) : n \in 0 .. MaxAnnotationLen}

\* sys.exit(code)
Exit(code) ==
    /\ worker_pc' = "exit"
    /\ exit_code' = code

\* lines 46-49, 52-57, 108: the config file is missing, or names the side
read_config ==
    /\ worker_pc = "config"
    /\ \/ /\ Exit(1)
          /\ UNCHANGED current_side
       \/ /\ \E side \in {"front", "back"} : current_side' = side
          /\ worker_pc' = "camera"
          /\ UNCHANGED exit_code
    /\ UNCHANGED <<loopVars, keypoints, keypoint_types, back_keypoints,
                   back_keypoint_types, is_calibrated, pixels_per_cm,
                   reference_image, back_reference_image>>

\* lines 116-119
initialize_camera ==
    /\ worker_pc = "camera"
    /\ \/ Exit(10)
       \/ /\ worker_pc' = "calibration"
          /\ UNCHANGED exit_code
    /\ UNCHANGED <<loopVars, current_side, keypoints, keypoint_types,
                   back_keypoints, back_keypoint_types, is_calibrated,
                   pixels_per_cm, reference_image, back_reference_image>>

\* lines 121-122: the result of load_calibration is not looked at
load_calibration ==
    /\ worker_pc = "calibration"
    /\ \E calibrated \in BOOLEAN :
          /\ is_calibrated' = calibrated
          /\ pixels_per_cm' = IF calibrated THEN CalibratedPixelsPerCm ELSE 0
    /\ worker_pc' = "annotation_file"
    /\ UNCHANGED <<loopVars, exit_code, current_side, keypoints,
                   keypoint_types, back_keypoints, back_keypoint_types,
                   reference_image, back_reference_image>>

\* lines 124-130
set_annotation_file ==
    /\ worker_pc = "annotation_file"
    /\ \/ Exit(11)
       \/ /\ worker_pc' = "load_annotation"
          /\ UNCHANGED exit_code
    /\ UNCHANGED <<loopVars, current_side, keypoints, keypoint_types,
                   back_keypoints, back_keypoint_types, is_calibrated,
                   pixels_per_cm, reference_image, back_reference_image>>

\* lines 141-147 with integration.py 260-329: load_annotation reports
\* success when the file has keypoints and the reference image decodes
worker_load_annotation ==
    /\ worker_pc = "load_annotation"
    /\ \E data \in WorkerAnnotationFiles :
          /\ keypoints' = [i \in DOMAIN data |-> RefPoint(i)]
          /\ keypoint_types' = LoadedTypes(TypesAsWritten(data), data)
          /\ reference_image' =
                IF DOMAIN data # {} THEN cv2_imread(reference_image_file)
                ELSE reference_image
          /\ IF DOMAIN data # {} /\ cv2_imread(reference_image_file)
             THEN /\ worker_pc' = "back"
                  /\ UNCHANGED exit_code
             ELSE Exit(12)
    /\ UNCHANGED <<loopVars, current_side, back_keypoints,
                   back_keypoint_types, is_calibrated, pixels_per_cm,
                   back_reference_image>>

\* lines 149-157 with integration.py 331-399: the back annotation and its
\* image are loaded when the files exist; no result is looked at
worker_load_back ==
    /\ worker_pc = "back"
    /\ \/ UNCHANGED <<back_keypoints, back_keypoint_types,
                      back_reference_image>>
       \/ \E data \in WorkerAnnotationFiles :
             /\ back_keypoints' = [i \in DOMAIN data |-> BackRefPoint(i)]
             /\ back_keypoint_types' = LoadedTypes(TypesAsWritten(data), data)
             /\ back_reference_image' =
                   IF back_reference_image_file # NoImageFile
                         \/ DOMAIN data # {}
                   THEN cv2_imread(back_reference_image_file)
                   ELSE back_reference_image
    /\ worker_pc' = "side"
    /\ UNCHANGED <<loopVars, exit_code, current_side, keypoints,
                   keypoint_types, is_calibrated, pixels_per_cm,
                   reference_image>>

\* lines 159-164 with integration.py 2809-2829: current_side was set from
\* the config at line 108; the result of switch_to_back_side is not looked
\* at, and on a fresh measurer its resets change nothing
enter_live_loop ==
    /\ worker_pc = "side"
    /\ worker_pc' = "loop"
    /\ UNCHANGED <<loopVars, exit_code, current_side, keypoints,
                   keypoint_types, back_keypoints, back_keypoint_types,
                   is_calibrated, pixels_per_cm, reference_image,
                   back_reference_image>>

\* the measurer as constructed, with the image files the API server wrote
InitWorker ==
    /\ InitState(NoAnnotation, NoAnnotation, FALSE, <<>>, "front", "config")
    /\ homography_input = NoFrame
    /\ fuse_input = NoFuseInput
    /\ reference_image_file \in ImageFiles
    /\ back_reference_image_file \in ImageFiles
    /\ reference_image = FALSE
    /\ back_reference_image = FALSE

NextWorker ==
    \/ read_config
    \/ initialize_camera
    \/ load_calibration
    \/ set_annotation_file
    \/ worker_load_annotation
    \/ worker_load_back
    \/ enter_live_loop

SpecWorker == InitWorker /\ [][NextWorker]_vars

TypeOK ==
    /\ current_side \in {"front", "back"}
    /\ pc \in {"loop", "key", "done"}
    /\ since_last_transfer \in 0 .. transfer_interval
    /\ stabilization_frames \in 0 .. MaxFrames
    /\ frames_processed \in 0 .. MaxFrames
    /\ zoom_factor \in 0 .. MaxZoomLevel
    /\ paused \in BOOLEAN

(***************************************************************************)
(* Properties.                                                             *)
(***************************************************************************)
\* this iteration ran transfer_keypoints_robust and transferred_keypoints
\* is the list it returned
ReturnedThisFrame == pc = "key" /\ transfer_path \in {"fused", "exception"}

\* this iteration wrote live_measurements.json
WrittenThisFrame == pc = "key" /\ saved

Entries == snapshot.measurements

\* C1 (static-lock monotonicity): once the Static-Lock Map holds an index,
\* the list transfer_keypoints_robust returns for a processed frame has
\* exactly the locked coordinate at that index, whatever the stages yield.
C1_LockedIndexOutput ==
    (ReturnedThisFrame /\ perpendicular_points_initialized) =>
        \A i \in DOMAIN perpendicular_points_static_map :
            /\ i \in DOMAIN transferred_keypoints
            /\ transferred_keypoints[i] = perpendicular_points_static_map[i]

\* C2 (result persistence): a pair measured under calibration in an earlier
\* frame of the side and not measured in the frame being written is still
\* in the snapshot with its last measured actual_cm.
C2_ResultPersistence ==
    WrittenThisFrame =>
        \A k \in DOMAIN last_good[current_side] :
            k \notin PairsOf(current_measurements) =>
                /\ k \in DOMAIN Entries
                /\ Entries[k].actual_cm = last_good[current_side][k]

FusedStep == frames_processed' = frames_processed + 1 /\ transfer_path' = "fused"

Locked(i) ==
    perpendicular_points_initialized
        /\ i \in DOMAIN perpendicular_points_static_map

\* on the frame being stabilized index i alone moved, by at least the jitter
\* threshold, and every other keypoint is where it was
LoneJump(i) ==
    /\ ~Locked(i)
    /\ IsValidX(last_valid_keypoints[i])
    /\ IsValidX(fused_points'[i])
    /\ Dist2(fused_points'[i], last_valid_keypoints[i])
          >= stabilization_threshold * stabilization_threshold
    /\ \A j \in DOMAIN last_valid_keypoints \ {i} :
          fused_points'[j] = last_valid_keypoints[j]

\* C4 (stabilization hold): with a previous frame recorded and at least 3
\* keypoints, a single non-locked keypoint displaced by at least 17 px while
\* all others are stationary is output at its previous value.
C4_HoldsLoneJump ==
    [][(/\ FusedStep
        /\ ListLen(last_valid_keypoints) >= 3
        /\ DOMAIN fused_points' = DOMAIN last_valid_keypoints)
        => \A i \in DOMAIN last_valid_keypoints :
              LoneJump(i) => transferred_keypoints'[i] = last_valid_keypoints[i]]_vars

\* C5 (QC auto-pass): every entry of a written snapshot for a pair without
\* target distance on the current side reports qc_passed = true.
C5_NoTargetPasses ==
    WrittenThisFrame =>
        \A k \in DOMAIN Entries :
            k \notin DOMAIN CurrentTargets => Entries[k].qc_passed

\* the verdict of a tuple measured in this iteration for a pair with target
VerdictOf(m) ==
    Abs(m.real_distance - CurrentTargets[m.pair_num])
        <= CmToMilli(qc_tolerance_cm)

\* C6 (QC verdict): for a pair with a target on the current side the verdict
\* is true exactly when |measured - target| <= qc_tolerance_cm, qc_results
\* records the matching PASS/FAIL, and the target distances stay as loaded;
\* the per-pair tolerance fields of measurement_specs play no part.
C6_QcVerdict ==
    /\ (pc = "key" /\ is_calibrated) =>
          \A j \in DOMAIN current_measurements :
              current_measurements[j].pair_num \in DOMAIN CurrentTargets =>
                  /\ current_measurements[j].qc_passed
                        = VerdictOf(current_measurements[j])
                  /\ current_measurements[j].pair_num \in DOMAIN qc_results
                  /\ qc_results[current_measurements[j].pair_num]
                        = IF VerdictOf(current_measurements[j]) THEN "PASS"
                          ELSE "FAIL"
    /\ <<target_distances, back_target_distances>>
          \in {<<Ann4.targets, Back4.targets>>,
               <<Ann5.targets, NoAnnotation.targets>>,
               <<Ann18.targets, Back4.targets>>}

\* one frame has a pair exactly qc_tolerance_cm off its target, passed
\* although its per-pair tolerance is smaller, and a pair further off, failed
C6_Witness ==
    /\ pc = "key"
    /\ is_calibrated
    /\ \E j \in DOMAIN current_measurements :
          /\ current_measurements[j].pair_num \in DOMAIN CurrentTargets
          /\ Abs(current_measurements[j].real_distance
                    - CurrentTargets[current_measurements[j].pair_num])
                = CmToMilli(qc_tolerance_cm)
          /\ current_measurements[j].pair_num \in DOMAIN measurement_specs
          /\ CmToMilli(measurement_specs[current_measurements[j].pair_num].tol_plus)
                < CmToMilli(qc_tolerance_cm)
          /\ qc_results[current_measurements[j].pair_num] = "PASS"
    /\ \E j \in DOMAIN current_measurements :
          /\ current_measurements[j].pair_num \in DOMAIN CurrentTargets
          /\ qc_results[current_measurements[j].pair_num] = "FAIL"

\* C7 (side switch): a successful switch leaves last_valid_keypoints empty,
\* the stabilized flag false, the stable-frame counter 0, the Static-Lock Map
\* empty and uninitialized and last_detected_scale at 1.0; a key step that
\* does not change the side leaves the tracking state as it was.
C7_SwitchResets ==
    [][/\ current_side' # current_side =>
             /\ last_valid_keypoints' = EmptyList
             /\ ~keypoint_stabilized'
             /\ stabilization_frames' = 0
             /\ ~perpendicular_points_initialized'
             /\ perpendicular_points_static_map' = EmptyMap
             /\ last_detected_scale' = InitialScale
       /\ (pc = "key" /\ current_side' = current_side) =>
             UNCHANGED trackingVars]_vars

\* a step on which the Static-Lock Map is built
LockBuiltStep ==
    ~perpendicular_points_initialized /\ perpendicular_points_initialized'

\* C8 (static-lock initialization): the map is built on a frame only if it
\* is not yet built, at least 18 keypoints exist and every perp index has a
\* valid fused coordinate in that frame, and it freezes that frame's fused
\* coordinates; with every perp index valid in the first frame of an
\* 18-keypoint side the lock is built in that frame.
C8_LockInitCondition ==
    [][/\ LockBuiltStep =>
             /\ FusedStep
             /\ perpendicular_points_static_map = EmptyMap
             /\ ListLen(fused_points') >= LockMinKeypoints
             /\ DOMAIN perpendicular_points_static_map'
                   = PerpIndices(CurrentTypes)
             /\ \A i \in PerpIndices(CurrentTypes) :
                   /\ IsValidX(fused_points'[i])
                   /\ perpendicular_points_static_map'[i] = fused_points'[i]
       /\ (/\ FusedStep
           /\ ListLen(last_valid_keypoints) = 0
           /\ ListLen(fused_points') >= LockMinKeypoints
           /\ PerpIndices(CurrentTypes) # {}
           /\ \A i \in PerpIndices(CurrentTypes) : IsValidX(fused_points'[i]))
             => perpendicular_points_initialized']_vars

\* C9 (static lock written once): while the side stays the same a populated
\* Static-Lock Map keeps its key set and every coordinate, whatever frames
\* and pause, zoom, pan or static-mode keys follow; an uninitialized map is
\* empty and an initialized one is not.
C9_LockWrittenOnce ==
    [][/\ (perpendicular_points_initialized /\ current_side' = current_side)
             => /\ perpendicular_points_initialized'
                /\ perpendicular_points_static_map'
                      = perpendicular_points_static_map
       /\ perpendicular_points_initialized'
             = (perpendicular_points_static_map' # EmptyMap)]_vars

\* the lock was built on the first frame and is in place after a second
\* frame, with the session paused and resumed in between and the zoom, pan
\* and static-mode keys pressed
C9_Witness ==
    /\ perpendicular_points_initialized
    /\ perpendicular_points_static_map # EmptyMap
    /\ frames_processed = MaxFrames
    /\ ReturnedThisFrame
    /\ zoom_factor > 0
    /\ pan_x # 0
    /\ ~perpendicular_static_mode

\* C10 (is_fallback flag): in a written snapshot is_fallback is false exactly
\* for the entries computed from the keypoints of the frame being written
\* and true for cached and never-measured ones, also on frames where no pair
\* is measured and the cached list is handed to save_live_measurements.
C10_FallbackFlag ==
    WrittenThisFrame =>
        \A k \in DOMAIN Entries :
            Entries[k].is_fallback = (k \notin PairsOf(current_measurements))

\* a step on which transfer_keypoints_robust ran and returned a list for the
\* side whose previous output is still in transferred_keypoints
LaterFrameStep ==
    /\ frames_processed' = frames_processed + 1
    /\ transfer_path' \in {"fused", "exception"}
    /\ ListLen(transferred_keypoints) > 0
    /\ DOMAIN transferred_keypoints' = DOMAIN transferred_keypoints

\* C11 (dropout reuse): on every processed frame after the first of a side a
\* keypoint that was output with a valid coordinate is not output as (-1,-1),
\* and a keypoint for which the frame yields no valid fused position is
\* output at the previous frame's output value.
C11_DropoutReuse ==
    [][LaterFrameStep =>
          \A i \in DOMAIN transferred_keypoints :
              /\ IsValidX(transferred_keypoints[i])
                    => IsValidX(transferred_keypoints'[i])
              /\ ~IsValidX(fused_points'[i])
                    => transferred_keypoints'[i] = transferred_keypoints[i]]_vars

\* a step on which stabilize_keypoints filtered the fused points against a
\* recorded previous frame of the same length
FilteredStep ==
    /\ FusedStep
    /\ ListLen(last_valid_keypoints) > 0
    /\ DOMAIN fused_points' = DOMAIN last_valid_keypoints

\* C12 (stabilization pass-through): a valid new position of a non-locked
\* keypoint less than the jitter threshold (17 px) away from its previous
\* value is output unchanged and becomes the new previous value, whatever
\* the other keypoints do.
C12_PassThrough ==
    [][FilteredStep =>
          \A i \in DOMAIN last_valid_keypoints :
              (/\ ~Locked(i)
               /\ IsValidX(fused_points'[i])
               /\ Dist2(fused_points'[i], last_valid_keypoints[i])
                     < stabilization_threshold * stabilization_threshold)
                => /\ transferred_keypoints'[i] = fused_points'[i]
                   /\ last_valid_keypoints'[i] = fused_points'[i]]_vars

\* a filtered frame on which a non-locked keypoint moved by less than the
\* threshold and was taken over, while another keypoint was held back
C12_Witness ==
    /\ pc = "key"
    /\ transfer_path = "fused"
    /\ ListLen(previous_valid) > 0
    /\ DOMAIN previous_valid = DOMAIN fused_points
    /\ \E i \in DOMAIN fused_points :
          /\ ~(perpendicular_points_initialized
                  /\ i \in DOMAIN perpendicular_points_static_map)
          /\ IsValidX(fused_points[i])
          /\ fused_points[i] # previous_valid[i]
          /\ Dist2(fused_points[i], previous_valid[i])
                < stabilization_threshold * stabilization_threshold
          /\ transferred_keypoints[i] = fused_points[i]
          /\ last_valid_keypoints[i] = fused_points[i]
    /\ \E j \in DOMAIN fused_points :
          /\ IsValidX(fused_points[j])
          /\ transferred_keypoints[j] # fused_points[j]

\* the pairs of the list tk both of whose keypoints are valid
ValidPairs(tk) ==
    {k \in 1 .. ListLen(tk) :
        /\ 2 * k - 1 \in DOMAIN tk
        /\ tk[2 * k - 2][1] # -1 /\ tk[2 * k - 2][2] # -1
        /\ tk[2 * k - 1][1] # -1 /\ tk[2 * k - 1][2] # -1}

\* C13 (pair emission): the iteration produces a measurement for pair k
\* (keypoints 2k-2 and 2k-1) exactly when both keypoints are valid, one
\* tuple per pair; a trailing unpaired keypoint produces none, and the pixel
\* distance is the Euclidean distance of the two points.
C13_PairEmission ==
    pc = "key" =>
        /\ PairsOf(current_measurements)
              = IF is_keypoints_transferred
                THEN ValidPairs(transferred_keypoints) ELSE {}
        /\ Len(current_measurements)
              = Cardinality(PairsOf(current_measurements))
        /\ \A j \in DOMAIN current_measurements :
              LET m == current_measurements[j]
              IN  /\ m.pixel_distance >= 0
                  /\ m.pixel_distance * m.pixel_distance
                        = Dist2(transferred_keypoints[2 * m.pair_num - 2],
                                transferred_keypoints[2 * m.pair_num - 1])

\* five keypoints: pair 1 skipped because its first point is missing, pair 2
\* measured, the trailing fifth keypoint valid and without measurement
C13_Witness ==
    /\ pc = "key"
    /\ ListLen(transferred_keypoints) = 5
    /\ ~IsValidX(transferred_keypoints[0])
    /\ IsValidX(transferred_keypoints[1])
    /\ IsValidX(transferred_keypoints[4])
    /\ PairsOf(current_measurements) = {2}
    /\ current_measurements[1].pixel_distance = 50

\* C14 (calibration mode): when calibrated a measured pair's real distance
\* is pixel_distance / pixels_per_cm (kept in 1/1000 cm); without
\* calibration check_qc is never invoked and every snapshot entry carries
\* the pixel distance only, its actual_cm not being a number.
C14_CalibrationMode ==
    WrittenThisFrame =>
        IF is_calibrated
        THEN \A j \in DOMAIN current_measurements :
                LET m == current_measurements[j]
                IN  /\ m.real_distance * pixels_per_cm
                          <= m.pixel_distance * 1000
                    /\ m.pixel_distance * 1000
                          < (m.real_distance + 1) * pixels_per_cm
        ELSE /\ qc_results = NoResults
             /\ \A k \in DOMAIN Entries : Entries[k].actual_cm = None

\* the roles the loaded file gives: positional inference when no entry
\* carries a role, else the explicit roles with 'normal' for untyped entries
RolesOfFile(data) ==
    [i \in DOMAIN data |->
        IF \A j \in DOMAIN data : data[j] = "untyped"
        THEN IF i <= 11 THEN "corner" ELSE IF i <= 17 THEN "perp" ELSE "normal"
        ELSE IF data[i] = "untyped" THEN "normal" ELSE data[i]]

\* C15 (role assignment on load): load_annotation and load_back_annotation
\* infer roles by position exactly when no entry of the file carries a role
\* (0-11 corner, 12-17 perp, later indices normal); otherwise explicit roles
\* are kept and untyped entries are normal.
C15_RoleAssignment ==
    /\ keypoints_data # NotLoaded
          => keypoint_types = RolesOfFile(keypoints_data)
    /\ back_keypoints_data # NotLoaded
          => back_keypoint_types = RolesOfFile(back_keypoints_data)

\* a legacy front file of 19 entries got the positional roles, and a back
\* file of 19 entries all written 'normal' kept them
C15_Witness ==
    /\ keypoints_data = UntypedFile(19)
    /\ keypoint_types[11] = "corner"
    /\ keypoint_types[12] = "perp"
    /\ keypoint_types[17] = "perp"
    /\ keypoint_types[18] = "normal"
    /\ back_keypoints_data = [i \in 0 .. 18 |-> "normal"]
    /\ \A i \in 0 .. 18 : back_keypoint_types[i] = "normal"

\* the frame of this iteration ran the homography path and it failed
HomographyFailed ==
    /\ pc = "key"
    /\ transfer_path = "fused"
    /\ frame_input.feature.desc
    /\ frame_input.feature.n >= HomographyMinMatches
    /\ ~(frame_input.feature.hom
            /\ DeterminantAccepted(frame_input.feature.det))

TemplateCandidate(inp, kps, i) ==
    IF i \in inp.drop THEN Invalid
    ELSE IF i \in inp.jump THEN <<kps[i][1] + JumpPx, kps[i][2]>>
    ELSE kps[i]

\* a step on which transfer_keypoints_robust ran on a frame with fewer than
\* min_matches accepted matches
BelowMinMatchesStep ==
    /\ frames_processed' = frames_processed + 1
    /\ transfer_path' \in {"fused", "exception"}
    /\ frame_input'.feature.n < min_matches

\* C17 (minimum-match gate): on a frame with fewer than min_matches (15)
\* accepted matches the Transfer Engine candidate is (-1,-1) for every
\* keypoint, and the template and corner candidates of the frame are fused:
\* a corner index takes the detected corner, a locked index its locked
\* position, every other index the template candidate.
C17_MinMatchGate ==
    [][BelowMinMatchesStep =>
          /\ DOMAIN engine_points' = DOMAIN CurrentKeypoints
          /\ DOMAIN fused_points' = DOMAIN CurrentKeypoints
          /\ \A i \in DOMAIN CurrentKeypoints :
                /\ engine_points'[i] = <<-1, -1>>
                /\ fused_points'[i] =
                      IF CurrentTypes[i] = "corner"
                            /\ frame_input'.corner = "found"
                      THEN CurrentKeypoints[i]
                      ELSE IF CurrentTypes[i] = "perp" /\ Locked(i)
                      THEN perpendicular_points_static_map[i]
                      ELSE TemplateCandidate(frame_input', CurrentKeypoints, i)]_vars

\* a frame with 10 matches: no Transfer Engine candidate, the displaced
\* template candidate of keypoint 0 and a detected corner in the fusion
C17_Witness ==
    /\ pc = "key"
    /\ transfer_path = "fused"
    /\ frame_input.feature.desc
    /\ frame_input.feature.n = 10
    /\ frame_input.jump = {0}
    /\ frame_input.corner = "found"
    /\ \A i \in DOMAIN engine_points : ~IsValidX(engine_points[i])
    /\ fused_points[0] = <<CurrentKeypoints[0][1] + JumpPx, RefY>>
    /\ \E i \in DOMAIN CurrentTypes :
          CurrentTypes[i] = "corner" /\ fused_points[i] = CurrentKeypoints[i]

\* C18 (cooperative cancellation): in the headless loop the stop flag is
\* checked in every iteration, so an iteration that begins with should_stop
\* set does not return to the head of the loop, and the check, once
\* reached, ends the loop.
C18_StopWithinOneIteration ==
    [][(headless /\ should_stop /\ pc # "done") =>
          /\ pc' # "loop"
          /\ pc = "key" => pc' = "done"]_vars

\* C19 (at most one live session): under any interleaving of start and stop
\* requests with the run_measurement threads, at most one worker process
\* spawned by the API server is alive.
C19_AtMostOneWorker == Cardinality(workers_alive) <= 1

\* C20 (atomic snapshot): a reader of live_measurements.json concurrent
\* with save_live_measurements observes no file or a complete snapshot,
\* the previous one or the new one, never a partially written file, on
\* every path of the save.
C20_AtomicSnapshot ==
    reader_data # NotRead =>
        \/ reader_data = NoFile
        \/ /\ Complete(reader_data)
           /\ reader_data.version \in 1 .. saves

\* the side the loop starts on has keypoints and a decoded reference image
RequestedSideLoaded ==
    IF current_side = "front"
    THEN DOMAIN keypoints # {} /\ reference_image
    ELSE DOMAIN back_keypoints # {} /\ back_reference_image

\* C21 (configuration errors stop the session): the worker enters the live
\* loop only with the annotation of the requested side loaded, keypoints and
\* decoded reference image; a missing camera, a missing annotation file and
\* a failed annotation load end it with exit codes 10, 11 and 12.
C21_LoopOnlyWhenLoaded ==
    /\ worker_pc = "loop" => RequestedSideLoaded
    /\ worker_pc = "exit" => exit_code \in {1, 10, 11, 12}

\* C22 (even keypoint count): every annotation the live loop operates on
\* has an even number of keypoints.
C22_EvenKeypointCount ==
    worker_pc = "loop" =>
        /\ ListLen(keypoints) % 2 = 0
        /\ ListLen(back_keypoints) % 2 = 0

\* a non-empty garbage prefix followed by a complete JPEG or PNG stream
GarbagePrefixed(file) ==
    \E g \in GarbagePrefixes :
        /\ Len(g) > 0
        /\ file \in {g \o JpegStream, g \o PngStream}

\* C23 (garbage-prefixed reference image): loading a reference image file
\* made of a non-empty garbage prefix and a complete JPEG or PNG stream
\* succeeds, front and back, in the engine of the worker and in the backup
\* engine.
C23_GarbagePrefixedImageLoads ==
    /\ (DOMAIN keypoints # {} /\ GarbagePrefixed(reference_image_file))
          => reference_image
    /\ (DOMAIN back_keypoints # {}
          /\ GarbagePrefixed(back_reference_image_file))
          => back_reference_image
    /\ \A file \in ImageFiles :
          GarbagePrefixed(file) => backup_load_reference_image(file)

\* C24 (homography plausibility band): transfer_with_homography gives a
\* result only for a determinant in the open interval (0.1, 10.0); every
\* determinant outside it, the negative ones and the boundary values
\* included, yields no homography result.
C24_DeterminantBand ==
    homography_result # NotCalled =>
        (ListLen(homography_result) > 0 <=>
            /\ homography_input.feature.n >= min_matches
            /\ homography_input.feature.hom
            /\ DetLow < homography_input.feature.det
            /\ homography_input.feature.det < DetHigh)

\* the fused point the normal-role policy gives for the candidates of
\* fuse_input: a point p is that result
NormalPolicyGives(p) ==
    LET f == fuse_input.feat_pt
        t == fuse_input.temp_pt
        met == fuse_input.matches >= min_matches
        w == IF met THEN 7 ELSE 4
        apart2 == (f[1] - t[1]) * (f[1] - t[1]) + (f[2] - t[2]) * (f[2] - t[2])
    IN  IF f # Invalid /\ t # Invalid
        THEN IF apart2 < 25 * 25
             THEN /\ 10 * p[1] = w * f[1] + (10 - w) * t[1]
                  /\ 10 * p[2] = w * f[2] + (10 - w) * t[2]
             ELSE p = IF met THEN f ELSE t
        ELSE IF f # Invalid THEN p = f
        ELSE IF t # Invalid THEN p = t
        ELSE p = <<-1, -1>>

\* C25 (normal-role fusion): both candidates valid and less than 25 px
\* apart give their blend, 0.7/0.3 when the match count met min_matches and
\* 0.4/0.6 otherwise; 25 px or more apart give the transfer-engine
\* candidate when the match count met min_matches, else the template one;
\* a single valid candidate is taken; none gives (-1,-1).
C25_NormalFusion ==
    (fuse_result # NotFused /\ fuse_input.type = "normal")
        => NormalPolicyGives(fuse_result)

\* a normal keypoint with candidates 20 px apart and 15 matches: the
\* 0.7/0.3 blend
C25_Witness ==
    /\ fuse_input.type = "normal"
    /\ fuse_input.feat_pt = <<100, 100>>
    /\ fuse_input.temp_pt = <<120, 100>>
    /\ fuse_input.matches = min_matches
    /\ fuse_result = <<106, 100>>

\* C26 (unlocked perpendicular points behave like normal points): while the
\* Static-Lock Map does not hold the index, the fused point of a 'perp'
\* keypoint is what the normal-role policy gives for the same candidates
\* and match count.
C26_UnlockedPerpLikeNormal ==
    (fuse_result # NotFused /\ fuse_input.type = "perp" /\ ~fuse_input.locked)
        => NormalPolicyGives(fuse_result)

\* C27 (pause): an iteration that begins paused captures no frame and runs
\* no transfer: it leaves transferred_keypoints and the tracking state as
\* they are and reaches the key handling; the key that resumes leaves them
\* too, so tracking continues from the state held at pause.
C27_PauseFreezesTracking ==
    [][(paused /\ pc = "loop" =>
            /\ pc' = "key"
            /\ transfer_path' = "paused"
            /\ frame_input' = NoFrame
            /\ UNCHANGED <<transferred_keypoints, is_keypoints_transferred,
                           trackingVars, frames_processed, snapshot, paused>>)
       /\ (paused /\ pc = "key" /\ ~paused' =>
            /\ pc' = "loop"
            /\ UNCHANGED <<transferred_keypoints, is_keypoints_transferred,
                           trackingVars>>)]_vars

\* a paused iteration has run on a session that holds tracking state
C27_Witness ==
    /\ paused
    /\ pc = "key"
    /\ transfer_path = "paused"
    /\ ListLen(last_valid_keypoints) > 0
    /\ ListLen(transferred_keypoints) > 0

\* C28 (transfer throttling): the transfer step of an unpaused iteration
\* runs only when at least transfer_interval has passed since the previous
\* run; a throttled iteration leaves transferred_keypoints and the tracking
\* state unchanged and recomputes the measurements from the previous
\* transfer result.
C28_TransferThrottled ==
    [][(frames_processed' = frames_processed + 1 =>
            /\ elapsed' >= transfer_interval
            /\ since_last_transfer' = 0)
       /\ (transfer_path' = "throttled" =>
            /\ ~paused
            /\ elapsed' < transfer_interval
            /\ UNCHANGED <<transferred_keypoints, is_keypoints_transferred,
                           trackingVars, frames_processed>>
            /\ current_measurements' =
                  IF is_keypoints_transferred
                        /\ ListLen(transferred_keypoints) > 0
                  THEN MeasurePairs(transferred_keypoints) ELSE <<>>)]_vars

\* a throttled iteration right after a transfer run, measuring the
\* keypoints that run transferred
C28_Witness ==
    /\ pc = "key"
    /\ transfer_path = "throttled"
    /\ elapsed = 0
    /\ frames_processed > 0
    /\ Len(current_measurements) > 0

\* C29 (no cross-side leakage): every entry of a snapshot written with side S
\* is either the null entry of a pair without measurement or carries the
\* actual_cm, pixel_distance and qc_passed of a tuple the pair loop built
\* from the keypoints of side S since the most recent switch to S; this
\* holds on throttled frames and on frames without a measurable pair too.
C29_NoCrossSideLeakage ==
    WrittenThisFrame =>
        /\ snapshot.side = side_measured.side
        /\ \A k \in DOMAIN Entries :
              \/ /\ Entries[k].actual_cm = None
                 /\ Entries[k].pixel_distance = 0
                 /\ Entries[k].qc_passed = FALSE
              \/ /\ k \in DOMAIN side_measured.by_pair
                 /\ Entries[k].actual_cm =
                        Round2(side_measured.by_pair[k].real_distance)
                 /\ Entries[k].pixel_distance =
                        side_measured.by_pair[k].pixel_distance
                 /\ Entries[k].qc_passed = side_measured.by_pair[k].qc_passed

\* C30 (API status tracks the live worker): while a worker process spawned
\* by the API server is alive and no stop has been requested for it,
\* measurement_status['running'] is true and measurement_process names that
\* process; the exit of the worker of a replaced session changes neither.
C30_StatusTracksLiveWorker ==
    \A w \in workers_alive \ stop_requested :
        measurement_running /\ measurement_process = w

====
